---- MODULE Spec2Model ----
(***************************************************************************)
(* Model of pypurpleair: the sensor poll / InfluxDB write pipeline of      *)
(* scripts/purpleair_influx_writer.py, the two edge-triggered connection   *)
(* trackers (SensorBase._connected, PurpleAirDb._connected), and the LAN   *)
(* and Web Measurement.prepare_for_influxdb point builders.                *)
(***************************************************************************)
EXTENDS Integers, Sequences, FiniteSets, TLC

\* ------------------------------------------------------------------------
\* Bounds of the model
\* ------------------------------------------------------------------------

\* largest --n-queries value explored (the writer stops after that many polls)
MaxQueries == 4

\* polls explored by the specification that draws from every reading
MaxReadingPolls == 1

\* number of direct tracker calls explored by the tracker-level specification
MaxCalls == 5

\* ------------------------------------------------------------------------
\* JSON / Python values.  Every value has the same record shape so that any
\* two values can be compared: kind is "null" (None), "num" (a number
\* num/den), "str" (a string) or "bool" (num = 1 for True).
\* ------------------------------------------------------------------------

Null == [kind |-> "null", num |-> 0, den |-> 1, str |-> ""]

Num(n, d) == [kind |-> "num", num |-> n, den |-> d, str |-> ""]

Str(s) == [kind |-> "str", num |-> 0, den |-> 1, str |-> s]

Bool(b) == [kind |-> "bool", num |-> IF b THEN 1 ELSE 0, den |-> 1, str |-> ""]

IsNone(v) == v.kind = "null"

\* the literal the LAN firmware reports while the particle counters warm up
IsNan(v) == v.kind = "str" /\ v.str = "nan"

EmptyDict == [k \in {} |-> Null]

\* d[k] = v on a dict
Put(d, k, v) == [x \in (DOMAIN d) \cup {k} |-> IF x = k THEN v ELSE d[x]]

\* dict.get(k): None when the key is absent
Get(d, k) == IF k \in DOMAIN d THEN d[k] ELSE Null

\* ------------------------------------------------------------------------
\* Log lines
\* ------------------------------------------------------------------------

Info(m) == [level |-> "INFO", msg |-> m]

Warning(m) == [level |-> "WARNING", msg |-> m]

Error(m) == [level |-> "ERROR", msg |-> m]

\* the messages of the two Sensor classes
_lost_connection_msg(kind) ==
    IF kind = "lan" THEN "Cannot connect to sensor: <addr>"
                    ELSE "Cannot connect: purpleair.com"

_regained_connection_msg(kind) ==
    IF kind = "lan" THEN "Connected to sensor: <addr>"
                    ELSE "Connected: purpleair.com"

DbConnectedMsg == "Connected to InfluxDB."

DbLostMsg == "Cannot connect to InfluxDB."

WrittenMsg == "Sensor measurement written to InfluxDB."

ClientErrorMsg == "InfluxDB Client Error:"

ClientErrorCodeMsg == "InfluxDB Client Error: (code: <code>)"

ValidDataMsg == "Sensor measurement contains valid data. Writing to database."

InvalidDataMsg == "Sensor measurement contains invalid data. Skipping database write."

FetchErrorMsg == "Error fetching sensor measurement. Cannot write database."

WriteFailedMsg == "Failed to write sensor measurement to InfluxDB."

\* ------------------------------------------------------------------------
\* The connection trackers.  Both return the new _connected flag, the
\* state_changed result and the log lines of the call.
\* ------------------------------------------------------------------------

\* SensorBase._set_connection_state logging the lost line on every failure
SensorSetConnectionState_EveryFailure(kind, connected, state) ==
    [connected |-> state,
     changed   |-> (state /\ ~connected) \/ ~state,
     log       |-> IF state /\ ~connected
                   THEN <<Info(_regained_connection_msg(kind))>>
                   ELSE IF ~state
                        THEN <<Error(_lost_connection_msg(kind))>>
                        ELSE <<>>]

\* SensorBase._set_connection_state
SensorSetConnectionState(kind, connected, state) ==
    [connected |-> state,
     changed   |-> (state /\ ~connected) \/ (connected /\ ~state),
     log       |-> IF state /\ ~connected
                   THEN <<Info(_regained_connection_msg(kind))>>
                   ELSE IF connected /\ ~state
                        THEN <<Error(_lost_connection_msg(kind))>>
                        ELSE <<>>]

\* PurpleAirDb._set_connection_state
DbSetConnectionState(connected, state) ==
    [connected |-> state,
     changed   |-> (state /\ ~connected) \/ (connected /\ ~state),
     log       |-> IF state /\ ~connected
                   THEN <<Info(DbConnectedMsg)>>
                   ELSE IF connected /\ ~state
                        THEN <<Error(DbLostMsg)>>
                        ELSE <<>>]

\* what one tracker call did: the flag before, the reported outcome, the
\* flag after, the returned state_changed and the lines it logged; cause is
\* the exception the caller handled ("none" after a request that returned,
\* "direct" for a call from outside the request wrappers)
Report(link, cause, before, outcome, r) ==
    [link |-> link, cause |-> cause, before |-> before, outcome |-> outcome,
     after |-> r.connected, changed |-> r.changed, log |-> r.log]

\* ------------------------------------------------------------------------
\* The collaborators: what one HTTP GET and one InfluxDB call can do
\* ------------------------------------------------------------------------

\* requests.get(url): raises ConnectionError, or returns a response with a
\* status code and a text ("" or a JSON document)
Fetches ==
    {[raises |-> TRUE, status |-> 0, text |-> ""],
     [raises |-> FALSE, status |-> 404, text |-> "json"],
     [raises |-> FALSE, status |-> 200, text |-> ""],
     [raises |-> FALSE, status |-> 200, text |-> "json"]}

\* an InfluxDB client call returns, or raises one of the three exception
\* classes run_influx_request handles; an InfluxDBClientError carries an
\* optional code and a content that may hold a JSON "error" text
DbOutcomes ==
    [exc : {"none", "ConnectionError", "InfluxDBServerError"},
     code : {FALSE}, content : {FALSE}]
    \cup {[exc |-> "InfluxDBClientError", code |-> FALSE, content |-> FALSE],
          [exc |-> "InfluxDBClientError", code |-> TRUE, content |-> TRUE]}

DbOk == [exc |-> "none", code |-> FALSE, content |-> FALSE]

\* _make_request without the status check
_make_request_AnyStatus(kind, connected, fetch) ==
    IF fetch.raises
    THEN LET r == SensorSetConnectionState(kind, connected, FALSE)
         IN  [connected |-> r.connected,
              reports   |-> <<Report("sensor", "ConnectionError", connected, FALSE, r)>>,
              log       |-> r.log,
              none      |-> TRUE,
              text      |-> ""]
    ELSE [connected |-> connected, reports |-> <<>>, log |-> <<>>,
          none |-> FALSE, text |-> fetch.text]

\* SensorBase._make_request: the text of the response, or None
\* (text = "", none = TRUE)
_make_request(kind, connected, fetch) ==
    IF fetch.raises
    THEN LET r == SensorSetConnectionState(kind, connected, FALSE)
         IN  [connected |-> r.connected,
              reports   |-> <<Report("sensor", "ConnectionError", connected, FALSE, r)>>,
              log       |-> r.log \o
                            (IF r.changed
                             THEN <<Error("Requests Connection Error:"),
                                    Error("<err>")>>
                             ELSE <<>>),
              none      |-> TRUE,
              text      |-> ""]
    ELSE IF fetch.status # 200
    THEN [connected |-> connected,
          reports   |-> <<>>,
          log       |-> <<Error("Cannot query URL: <url>"),
                          Error("Response status code: <status>"),
                          Error("Response text: <text>")>>,
          none      |-> TRUE,
          text      |-> ""]
    ELSE [connected |-> connected,
          reports   |-> <<>>,
          log       |-> <<>>,
          none      |-> FALSE,
          text      |-> fetch.text]

\* run_influx_request logging the client error only when the tracker changed
run_influx_request_QuietClientError(connected, outcome, success_request_msg) ==
    LET r == DbSetConnectionState(connected, outcome.exc \in {"none", "InfluxDBClientError"})
    IN  [connected |-> r.connected,
         reports   |-> <<Report("db", outcome.exc, connected,
                                outcome.exc \in {"none", "InfluxDBClientError"}, r)>>,
         log       |-> r.log \o
                       (IF ~r.changed THEN <<>>
                        ELSE IF outcome.exc = "none"
                        THEN (IF success_request_msg # ""
                              THEN <<Info(success_request_msg)>> ELSE <<>>)
                        ELSE IF outcome.exc = "InfluxDBClientError"
                        THEN (IF success_request_msg # ""
                              THEN <<Info(success_request_msg)>> ELSE <<>>)
                             \o <<Error(ClientErrorMsg)>>
                        ELSE <<Error("<error>:"), Error("<err>")>>),
         returned  |-> outcome.exc = "none"]

\* PurpleAirDb.run_influx_request: returned = TRUE when func returned (the
\* result is func's), FALSE when the result is default_return_value;
\* success_request_msg = "" stands for None
run_influx_request(connected, outcome, success_request_msg) ==
    IF outcome.exc = "none"
    THEN LET r == DbSetConnectionState(connected, TRUE)
         IN  [connected |-> r.connected,
              reports   |-> <<Report("db", outcome.exc, connected, TRUE, r)>>,
              log       |-> r.log \o
                            (IF r.changed /\ success_request_msg # ""
                             THEN <<Info(success_request_msg)>> ELSE <<>>),
              returned  |-> TRUE]
    ELSE IF outcome.exc = "ConnectionError"
    THEN LET r == DbSetConnectionState(connected, FALSE)
         IN  [connected |-> r.connected,
              reports   |-> <<Report("db", outcome.exc, connected, FALSE, r)>>,
              log       |-> r.log \o
                            (IF r.changed
                             THEN <<Error("Requests Connection Error:"),
                                    Error("<err>")>>
                             ELSE <<>>),
              returned  |-> FALSE]
    ELSE IF outcome.exc = "InfluxDBClientError"
    THEN LET r == DbSetConnectionState(connected, TRUE)
         IN  [connected |-> r.connected,
              reports   |-> <<Report("db", outcome.exc, connected, TRUE, r)>>,
              log       |-> r.log \o
                            (IF r.changed /\ success_request_msg # ""
                             THEN <<Info(success_request_msg)>> ELSE <<>>)
                            \o <<Error(IF outcome.code
                                       THEN ClientErrorCodeMsg
                                       ELSE ClientErrorMsg)>>
                            \o (IF outcome.content
                                THEN <<Error("<content>")>> ELSE <<>>),
              returned  |-> FALSE]
    ELSE LET r == DbSetConnectionState(connected, FALSE)
         IN  [connected |-> r.connected,
              reports   |-> <<Report("db", outcome.exc, connected, FALSE, r)>>,
              log       |-> r.log \o
                            (IF r.changed
                             THEN <<Error("InfluxDB Server Error:"),
                                    Error("<err>")>>
                             ELSE <<>>),
              returned  |-> FALSE]

\* ------------------------------------------------------------------------
\* Strings.  Python's str.startswith works on the characters of the key:
\* Chars spells the keys of a LAN reading and of its point.
\* ------------------------------------------------------------------------

Chars ==
    ("SensorId" :> <<"S", "e", "n", "s", "o", "r", "I", "d">>) @@
    ("DateTime" :> <<"D", "a", "t", "e", "T", "i", "m", "e">>) @@
    ("Geo" :> <<"G", "e", "o">>) @@
    ("ssid" :> <<"s", "s", "i", "d">>) @@
    ("lat" :> <<"l", "a", "t">>) @@
    ("lon" :> <<"l", "o", "n">>) @@
    ("place" :> <<"p", "l", "a", "c", "e">>) @@
    ("version" :> <<"v", "e", "r", "s", "i", "o", "n">>) @@
    ("hardwareversion" :> <<"h", "a", "r", "d", "w", "a", "r", "e", "v", "e", "r", "s", "i", "o", "n">>) @@
    ("hardwarediscovered" :> <<"h", "a", "r", "d", "w", "a", "r", "e", "d", "i", "s", "c", "o", "v", "e", "r", "e", "d">>) @@
    ("Adc" :> <<"A", "d", "c">>) @@
    ("rssi" :> <<"r", "s", "s", "i">>) @@
    ("uptime" :> <<"u", "p", "t", "i", "m", "e">>) @@
    ("pa_latency" :> <<"p", "a", "_", "l", "a", "t", "e", "n", "c", "y">>) @@
    ("period" :> <<"p", "e", "r", "i", "o", "d">>) @@
    ("current_temp_f" :> <<"c", "u", "r", "r", "e", "n", "t", "_", "t", "e", "m", "p", "_", "f">>) @@
    ("current_humidity" :> <<"c", "u", "r", "r", "e", "n", "t", "_", "h", "u", "m", "i", "d", "i", "t", "y">>) @@
    ("current_dewpoint_f" :> <<"c", "u", "r", "r", "e", "n", "t", "_", "d", "e", "w", "p", "o", "i", "n", "t", "_", "f">>) @@
    ("pressure" :> <<"p", "r", "e", "s", "s", "u", "r", "e">>) @@
    ("p_0_3_um" :> <<"p", "_", "0", "_", "3", "_", "u", "m">>) @@
    ("p_0_3_um_b" :> <<"p", "_", "0", "_", "3", "_", "u", "m", "_", "b">>) @@
    ("pm2_5_cf_1" :> <<"p", "m", "2", "_", "5", "_", "c", "f", "_", "1">>) @@
    ("pm2_5_cf_1_b" :> <<"p", "m", "2", "_", "5", "_", "c", "f", "_", "1", "_", "b">>) @@
    ("pm2.5_aqi" :> <<"p", "m", "2", ".", "5", "_", "a", "q", "i">>) @@
    ("pm2.5_aqi_b" :> <<"p", "m", "2", ".", "5", "_", "a", "q", "i", "_", "b">>) @@
    ("pm2.5_epa_correction" :> <<"p", "m", "2", ".", "5", "_", "e", "p", "a", "_", "c", "o", "r", "r", "e", "c", "t", "i", "o", "n">>) @@
    ("pm2.5_aqi_epa" :> <<"p", "m", "2", ".", "5", "_", "a", "q", "i", "_", "e", "p", "a">>)

\* key.startswith(prefix), prefix given by its characters
StartsWith(key, prefix) ==
    /\ Len(Chars[key]) >= Len(prefix)
    /\ SubSeq(Chars[key], 1, Len(prefix)) = prefix

\* str.upper() on the DateTime strings of the readings
Upper(s) == IF s = "2020/09/13t22:25:31z" THEN "2020/09/13T22:25:31Z" ELSE s

\* ------------------------------------------------------------------------
\* Results of Python expressions that may raise
\* ------------------------------------------------------------------------

Ok(v) == [ok |-> TRUE, exc |-> "", val |-> v]

Raise(e) == [ok |-> FALSE, exc |-> e, val |-> Null]

\* ------------------------------------------------------------------------
\* MeasurementBase: AQI and EPA correction.  Numbers are exact rationals
\* num/den.
\* ------------------------------------------------------------------------

\* int(x): truncation toward zero of n/d (d > 0)
Trunc(n, d) == IF n >= 0 THEN n \div d ELSE -((-n) \div d)

\* the breakpoint tables of get_aqi, concentrations in tenths
concentration_limits ==
    <<<<0, 120>>, <<121, 354>>, <<355, 554>>, <<555, 1504>>,
      <<1505, 2504>>, <<2505, 3504>>, <<3505, 5004>>>>

aqi_limits ==
    <<<<0, 50>>, <<51, 100>>, <<101, 150>>, <<151, 200>>,
      <<201, 300>>, <<301, 400>>, <<401, 500>>>>

\* int(pm_2_5 * 10)
Tenths(pm) ==
    IF pm.den % 10 = 0 THEN Trunc(pm.num, pm.den \div 10)
                       ELSE Trunc(pm.num * 10, pm.den)

\* the for loop of get_aqi never breaking: ii ends at the last bucket
LoopIndex_Last(t) == Len(concentration_limits)

\* where the for loop of get_aqi leaves ii: at the first bucket that holds t,
\* or at the last bucket when no bucket does (there is no break then)
LoopIndex(t) ==
    IF \E i \in 1..Len(concentration_limits) :
            concentration_limits[i][1] <= t /\ t <= concentration_limits[i][2]
    THEN CHOOSE i \in 1..Len(concentration_limits) :
            /\ concentration_limits[i][1] <= t /\ t <= concentration_limits[i][2]
            /\ \A j \in 1..(i - 1) :
                ~(concentration_limits[j][1] <= t /\ t <= concentration_limits[j][2])
    ELSE Len(concentration_limits)

\* the interpolation of get_aqi in bucket ii, t = 10 * pm_2_5:
\* (i_high - i_low) * (pm_2_5 - c_low) / (c_high - c_low) + i_low
Interpolate(t, ii) ==
    Num((aqi_limits[ii][2] - aqi_limits[ii][1]) * (t - concentration_limits[ii][1])
          + aqi_limits[ii][1] * (concentration_limits[ii][2] - concentration_limits[ii][1]),
        concentration_limits[ii][2] - concentration_limits[ii][1])

\* MeasurementBase.get_aqi on a number
get_aqi(pm) == Interpolate(Tenths(pm), LoopIndex(Tenths(pm)))

\* a number in millionths (the readings have den 1, 10 or 100)
Micro(v) == v.num * (1000000 \div v.den)

\* get_epa_correction testing the two concentrations for None only
get_epa_correction_PmOnly(pm2_5_cf_1_a, pm2_5_cf_1_b, humidity) ==
    IF IsNone(pm2_5_cf_1_a) \/ IsNone(pm2_5_cf_1_b)
    THEN Ok(Null)
    ELSE IF \E v \in {pm2_5_cf_1_a, pm2_5_cf_1_b, humidity} : v.kind # "num"
    THEN Raise("TypeError")
    ELSE LET x == 267 * ((Micro(pm2_5_cf_1_a) + Micro(pm2_5_cf_1_b)) \div 1000)
                  - 844 * (Micro(humidity) \div 10000) + 5604000
         IN  Ok(Num(IF x > 0 THEN x ELSE 0, 1000000))

\* get_epa_correction without max(0.0, ...)
get_epa_correction_Unclamped(pm2_5_cf_1_a, pm2_5_cf_1_b, humidity) ==
    IF IsNone(pm2_5_cf_1_a) \/ IsNone(pm2_5_cf_1_b) \/ IsNone(humidity)
    THEN Ok(Null)
    ELSE IF \E v \in {pm2_5_cf_1_a, pm2_5_cf_1_b, humidity} : v.kind # "num"
    THEN Raise("TypeError")
    ELSE Ok(Num(267 * ((Micro(pm2_5_cf_1_a) + Micro(pm2_5_cf_1_b)) \div 1000)
                - 844 * (Micro(humidity) \div 10000) + 5604000, 1000000))

\* MeasurementBase.get_epa_correction: None when an input is None, TypeError
\* when an input is not a number, else
\* max(0.0, 0.534 * (a + b) / 2 - 0.0844 * humidity + 5.604), in millionths
get_epa_correction(pm2_5_cf_1_a, pm2_5_cf_1_b, humidity) ==
    IF IsNone(pm2_5_cf_1_a) \/ IsNone(pm2_5_cf_1_b) \/ IsNone(humidity)
    THEN Ok(Null)
    ELSE IF \E v \in {pm2_5_cf_1_a, pm2_5_cf_1_b, humidity} : v.kind # "num"
    THEN Raise("TypeError")
    ELSE LET x == 267 * ((Micro(pm2_5_cf_1_a) + Micro(pm2_5_cf_1_b)) \div 1000)
                  - 844 * (Micro(humidity) \div 10000) + 5604000
         IN  Ok(Num(IF x > 0 THEN x ELSE 0, 1000000))

\* MeasurementBase.pm2_5_aqi_epa given the value of pm2_5_epa_correction
pm2_5_aqi_epa(epa) ==
    IF ~epa.ok THEN epa
    ELSE IF IsNone(epa.val) THEN Ok(Null)
    ELSE Ok(get_aqi(epa.val))

\* ------------------------------------------------------------------------
\* Points.  prepare_for_influxdb returns a point, None, or raises.
\* ------------------------------------------------------------------------

NoPoint == [time |-> Null, tags |-> EmptyDict, fields |-> EmptyDict, measurement |-> ""]

Point(time, tags, fields) ==
    [kind |-> "point", exc |-> "",
     point |-> [time |-> time, tags |-> tags, fields |-> fields, measurement |-> ""]]

NoData == [kind |-> "none", exc |-> "", point |-> NoPoint]

Raised(e) == [kind |-> "raise", exc |-> e, point |-> NoPoint]

\* ------------------------------------------------------------------------
\* pa_lan.Measurement
\* ------------------------------------------------------------------------

_TAG_KEYS ==
    {"SensorId", "Geo", "ssid", "lat", "lon", "place", "version",
     "hardwareversion", "hardwarediscovered"}

\* the nan guard looking at the "p_" keys only
LanNanGuard_CountsOnly(data) ==
    \E key \in DOMAIN data : StartsWith(key, <<"p", "_">>) /\ IsNan(data[key])

\* the nan guard at the head of prepare_for_influxdb
LanNanGuard(data) ==
    \E key \in DOMAIN data :
        /\ StartsWith(key, <<"p", "_">>) \/ StartsWith(key, <<"p", "m">>)
        /\ IsNan(data[key])

\* the keys the fields loop copies
LanFieldKey(key) ==
    \/ StartsWith(key, <<"c", "u", "r", "r", "e", "n", "t">>)
    \/ StartsWith(key, <<"p">>) /\ key \notin {"pa_latency", "period", "place"}
    \/ key \in {"rssi", "uptime"}

\* the tags, the copied fields and the two derived fields, epa being the
\* result of self.pm2_5_epa_correction
LanPoint(data, epa) ==
    IF ~epa.ok THEN Raised(epa.exc)
    ELSE Point(Str(Upper(data["DateTime"].str)),
               [key \in _TAG_KEYS |-> data[key]],
               Put(Put([key \in {k \in DOMAIN data : LanFieldKey(k)} |-> data[key]],
                       "pm2.5_epa_correction", epa.val),
                   "pm2.5_aqi_epa", pm2_5_aqi_epa(epa).val))

\* pa_lan.Measurement.prepare_for_influxdb on the raw dict self._data
LanPrepare(data) ==
    IF LanNanGuard(data) THEN NoData
    ELSE IF ~(_TAG_KEYS \subseteq DOMAIN data) THEN Raised("KeyError")
    ELSE LanPoint(data, get_epa_correction(data["pm2_5_cf_1"], data["pm2_5_cf_1_b"],
                                           data["current_humidity"]))

\* a LAN reading as the firmware reports it once warmed up
LanBase ==
    ("SensorId" :> Str("84:f3:eb:91:3a:7f")) @@ ("DateTime" :> Str("2020/09/13t22:25:31z")) @@
    ("Geo" :> Str("PurpleAir-3a7f")) @@ ("ssid" :> Str("wifi")) @@
    ("lat" :> Num(3771, 100)) @@ ("lon" :> Num(-12245, 100)) @@
    ("place" :> Str("outside")) @@ ("version" :> Str("6.01")) @@
    ("hardwareversion" :> Str("2.0")) @@
    ("hardwarediscovered" :> Str("2.0+BME280+PMSX003-B+PMSX003-A")) @@
    ("Adc" :> Num(3, 100)) @@ ("rssi" :> Num(-61, 1)) @@ ("uptime" :> Num(1200, 1)) @@
    ("pa_latency" :> Num(251, 1)) @@ ("period" :> Num(120, 1)) @@
    ("current_temp_f" :> Num(84, 1)) @@ ("current_humidity" :> Num(28, 1)) @@
    ("current_dewpoint_f" :> Num(47, 1)) @@ ("pressure" :> Num(101325, 100)) @@
    ("p_0_3_um" :> Num(52313, 100)) @@ ("p_0_3_um_b" :> Num(50011, 100)) @@
    ("pm2_5_cf_1" :> Num(1205, 100)) @@ ("pm2_5_cf_1_b" :> Num(1340, 100)) @@
    ("pm2.5_aqi" :> Num(50, 1)) @@ ("pm2.5_aqi_b" :> Num(54, 1))

\* the base reading with the values of some keys replaced
LanWith(changes) ==
    [key \in DOMAIN LanBase |->
        IF key \in DOMAIN changes THEN changes[key] ELSE LanBase[key]]

\* what a booting or partly equipped sensor reports besides the counters
LanOddities ==
    {EmptyDict,
     "pm2_5_cf_1_b" :> Null,
     "current_humidity" :> Null,
     "current_humidity" :> Str("nan"),
     "pressure" :> Str("nan"),
     "place" :> Null}

\* the LAN readings explored: every oddity, alone and together with a
\* particle counter that still reports "nan"
LanReadings ==
    {LanWith(o) : o \in LanOddities}
    \cup {LanWith(("p_0_3_um" :> Str("nan")) @@ o) : o \in LanOddities}
    \cup {LanWith(("pm2_5_cf_1_b" :> Str("nan")) @@ o) : o \in LanOddities}

\* ------------------------------------------------------------------------
\* pa_web.Measurement
\* ------------------------------------------------------------------------

_SENSOR_KEYS ==
    {"pm1_0_atm", "pm2_5_atm", "pm10_0_atm", "pm1_0_cf_1", "pm2_5_cf_1",
     "pm10_0_cf_1", "p_0_3_um", "p_0_5_um", "p_1_0_um", "p_2_5_um",
     "p_5_0_um", "p_10_0_um"}

\* the key left as it is
Suffixed_Unchanged(key) == key

\* key + "_b"
Suffixed(key) == key \o "_b"

\* the decimal literals the Web readings carry, as float() reads them
FloatLiterals ==
    ("0.0" :> Num(0, 1)) @@ ("3.5" :> Num(35, 10)) @@ ("4.25" :> Num(425, 100)) @@
    ("12.1" :> Num(121, 10)) @@ ("12.05" :> Num(1205, 100)) @@
    ("600.0" :> Num(600, 1)) @@ ("1013.25" :> Num(101325, 100)) @@
    ("28" :> Num(28, 1)) @@ ("84" :> Num(84, 1)) @@ ("-61" :> Num(-61, 1)) @@
    ("1200" :> Num(1200, 1))

\* the literals int() accepts: no fraction part
IntLiterals == {"28", "84", "-61", "1200"}

\* float(x)
Float(v) ==
    IF v.kind = "num" THEN Ok(v)
    ELSE IF v.kind = "bool" THEN Ok(Num(v.num, 1))
    ELSE IF v.kind = "null" THEN Raise("TypeError")
    ELSE IF v.str \in DOMAIN FloatLiterals THEN Ok(FloatLiterals[v.str])
    ELSE Raise("ValueError")

\* int(x)
Int_(v) ==
    IF v.kind = "num" THEN Ok(Num(Trunc(v.num, v.den), 1))
    ELSE IF v.kind = "bool" THEN Ok(Num(v.num, 1))
    ELSE IF v.kind = "null" THEN Raise("TypeError")
    ELSE IF v.str \in IntLiterals THEN Ok(FloatLiterals[v.str])
    ELSE Raise("ValueError")

\* self._ch_a[key]
Item(d, key) == IF key \in DOMAIN d THEN Ok(d[key]) ELSE Raise("KeyError")

\* the channel A accessors: float(self._ch_a[key])
WebChannelA(ch_a, key) ==
    IF key \in DOMAIN ch_a THEN Float(ch_a[key]) ELSE Raise("KeyError")

\* the raw key each channel B accessor reads
WebChannelBKey(key) == IF key = "pm2_5_atm" THEN "pm1_0_atm" ELSE key

\* the channel B accessors: self._ch_b.get(...), float() unless None
WebChannelB(ch_b, key) ==
    LET reading == Get(ch_b, WebChannelBKey(key))
    IN  IF IsNone(reading) THEN Ok(Null) ELSE Float(reading)

\* rssi, uptime, temp_f, humidity: self._ch_a.get(key), int() unless None
WebOptInt(ch_a, key) ==
    LET v == Get(ch_a, key) IN IF IsNone(v) THEN Ok(Null) ELSE Int_(v)

\* pressure: self._ch_a.get("pressure"), float() unless None
WebOptFloat(ch_a, key) ==
    LET v == Get(ch_a, key) IN IF IsNone(v) THEN Ok(Null) ELSE Float(v)

\* the tables of pa_web.Measurement._get_aqi, in tenths
web_concentration_limits ==
    <<<<0, 120>>, <<121, 354>>, <<355, 554>>, <<555, 1504>>,
      <<1505, 2504>>, <<2505, 3504>>, <<3505, 5004>>>>

\* the bucket test with the upper limit left out: low <= pm_2_5 < high
WebInBucket_Strict(pm, i) ==
    /\ web_concentration_limits[i][1] * pm.den <= pm.num * 10
    /\ pm.num * 10 < web_concentration_limits[i][2] * pm.den

\* bucket i of _get_aqi holds pm: low <= pm_2_5 <= high
WebInBucket(pm, i) ==
    /\ web_concentration_limits[i][1] * pm.den <= pm.num * 10
    /\ pm.num * 10 <= web_concentration_limits[i][2] * pm.den

\* the interpolation of _get_aqi in bucket ii
WebInterpolate(pm, ii) ==
    Num((aqi_limits[ii][2] - aqi_limits[ii][1])
            * (pm.num * 10 - web_concentration_limits[ii][1] * pm.den)
          + aqi_limits[ii][1]
            * (web_concentration_limits[ii][2] - web_concentration_limits[ii][1]) * pm.den,
        (web_concentration_limits[ii][2] - web_concentration_limits[ii][1]) * pm.den)

\* pa_web.Measurement._get_aqi: plain comparison against the table, and
\* RuntimeError when no bucket holds the value
_get_aqi(pm) ==
    IF \A i \in 1..Len(web_concentration_limits) : ~WebInBucket(pm, i)
    THEN Raise("RuntimeError")
    ELSE Ok(WebInterpolate(pm,
            CHOOSE i \in 1..Len(web_concentration_limits) :
                WebInBucket(pm, i) /\ \A j \in 1..(i - 1) : ~WebInBucket(pm, j)))

\* f(x) where x is the result of an evaluation that may have raised
AqiOf(f) == IF f.ok THEN _get_aqi(f.val) ELSE f

\* pm2_5_aqi: self._get_aqi(float(self._ch_a["PM2_5Value"]))
WebAqiA(ch_a) == AqiOf(WebChannelA(ch_a, "PM2_5Value"))

\* pm2_5_aqi_b
WebAqiB(ch_b) ==
    IF IsNone(Get(ch_b, "PM2_5Value")) THEN Ok(Null)
    ELSE AqiOf(Float(Get(ch_b, "PM2_5Value")))

\* str.lower() on the Hidden flag
Lower(s) == IF s \in {"True", "TRUE"} THEN "true"
            ELSE IF s \in {"False", "FALSE"} THEN "false" ELSE s

\* timestamp: lastModified (ms) as ISO-8601 with milliseconds and "Z"
WebTimestamp(stats) ==
    IF stats = "{\"lastModified\":1500}" THEN Str("1970-01-01T00:00:01.500Z")
    ELSE Str("1970-01-01T00:00:00.000Z")

\* a dict from a set of <<key, value>> pairs with distinct keys
DictOf(pairs) ==
    [k \in {p[1] : p \in pairs} |-> (CHOOSE p \in pairs : p[1] = k)[2]]

\* the first exception raised by a sequence of evaluations, "" when none
FirstRaise(rs) ==
    IF \A i \in 1..Len(rs) : rs[i].ok THEN ""
    ELSE rs[CHOOSE i \in 1..Len(rs) :
                ~rs[i].ok /\ \A j \in 1..(i - 1) : rs[j].ok].exc

\* every attribute prepare_for_influxdb reads, evaluated on self._ch_a and
\* self._ch_b
WebAttributes(ch_a, ch_b) ==
    [sensor_id |-> Item(ch_a, "ID"),
     label     |-> Item(ch_a, "Label"),
     lat       |-> Item(ch_a, "Lat"),
     hidden    |-> Item(ch_a, "Hidden"),
     a         |-> [key \in _SENSOR_KEYS |-> WebChannelA(ch_a, key)],
     b         |-> [key \in _SENSOR_KEYS |-> WebChannelB(ch_b, key)],
     aqi       |-> WebAqiA(ch_a),
     aqi_b     |-> WebAqiB(ch_b),
     temp_f    |-> WebOptInt(ch_a, "temp_f"),
     pressure  |-> WebOptFloat(ch_a, "pressure"),
     humidity  |-> WebOptInt(ch_a, "humidity"),
     rssi      |-> WebOptInt(ch_a, "RSSI"),
     uptime    |-> WebOptInt(ch_a, "Uptime"),
     place     |-> Ok(Get(ch_a, "DEVICE_LOCATIONTYPE")),
     version   |-> Item(ch_a, "Version"),
     hw        |-> Item(ch_a, "DEVICE_HARDWAREDISCOVERED"),
     type      |-> Item(ch_a, "Type"),
     stats     |-> Item(ch_a, "Stats")]

\* the results of the sensor-key loop that raised (both channels or A only)
KeysRaised(v, both) ==
    IF \A key \in _SENSOR_KEYS : v.a[key].ok /\ (both => v.b[key].ok) THEN <<>>
    ELSE <<Raise((CHOOSE r \in {v.a[key] : key \in _SENSOR_KEYS}
                           \cup {v.b[key] : key \in {k \in _SENSOR_KEYS : both}} :
                    ~r.ok).exc)>>

\* the tags every Web point carries: "lon" is assigned self.lat
WebTags(v) ==
    ("sensor_id" :> v.sensor_id.val) @@ ("label" :> v.label.val) @@
    ("lat" :> v.lat.val) @@ ("lon" :> v.lat.val) @@
    ("hidden" :> Bool(Lower(v.hidden.val.str) = "true"))

\* the point of a reading with both channels (if self._ch_b), v being the
\* attributes and exc the first exception raised while they were read
WebPointTwo(v, exc) ==
    IF exc # "" THEN Raised(exc)
    ELSE Point(WebTimestamp(v.stats.val.str),
               WebTags(v) @@ ("place" :> v.place.val) @@ ("version" :> v.version.val) @@
               ("hardwarediscovered" :> v.hw.val) @@ ("type" :> v.type.val),
               DictOf({<<key, v.a[key].val>> : key \in _SENSOR_KEYS}
                      \cup {<<Suffixed(key), v.b[key].val>> : key \in _SENSOR_KEYS}
                      \cup {<<"pm2.5_aqi", v.aqi.val>>, <<"pm2.5_aqi_b", v.aqi_b.val>>,
                            <<"temp_f", v.temp_f.val>>, <<"pressure", v.pressure.val>>,
                            <<"humidity", v.humidity.val>>, <<"rssi", v.rssi.val>>,
                            <<"uptime", v.uptime.val>>}))

\* the point of a reading with one channel (else branch)
WebPointOne(v, exc) ==
    IF exc # "" THEN Raised(exc)
    ELSE Point(WebTimestamp(v.stats.val.str), WebTags(v),
               DictOf({<<Suffixed(key), v.a[key].val>> : key \in _SENSOR_KEYS}
                      \cup {<<"pm2.5_aqi_b", v.aqi.val>>}))

\* prepare_for_influxdb given the attributes it reads
WebPoint(v, both) ==
    IF both
    THEN WebPointTwo(v, FirstRaise(<<v.sensor_id, v.label, v.lat, v.hidden>>
                                   \o KeysRaised(v, TRUE)
                                   \o <<v.aqi, v.aqi_b, v.temp_f, v.pressure, v.humidity,
                                        v.rssi, v.uptime, v.place, v.version, v.hw,
                                        v.type, v.stats>>))
    ELSE WebPointOne(v, FirstRaise(<<v.sensor_id, v.label, v.lat, v.hidden>>
                                   \o KeysRaised(v, FALSE) \o <<v.aqi, v.stats>>))

\* pa_web.Measurement.prepare_for_influxdb on self._ch_a and self._ch_b
\* (ch_b = EmptyDict when the reading has one channel)
WebPrepare(ch_a, ch_b) == WebPoint(WebAttributes(ch_a, ch_b), ch_b # EmptyDict)

\* a two-channel Web reading: channel A (the parent entry) and channel B
WebBaseA ==
    ("ID" :> Num(1234, 1)) @@ ("Label" :> Str("porch")) @@
    ("Lat" :> Num(3771, 100)) @@ ("Lon" :> Num(-12245, 100)) @@
    ("Hidden" :> Str("false")) @@ ("Stats" :> Str("{\"lastModified\":1500}")) @@
    ("PM2_5Value" :> Str("12.1")) @@ ("DEVICE_LOCATIONTYPE" :> Str("outside")) @@
    ("Version" :> Str("6.01")) @@
    ("DEVICE_HARDWAREDISCOVERED" :> Str("2.0+BME280+PMSX003-B+PMSX003-A")) @@
    ("Type" :> Str("PMS5003+PMS5003+BME280")) @@ ("RSSI" :> Str("-61")) @@
    ("Uptime" :> Str("1200")) @@ ("temp_f" :> Str("84")) @@
    ("humidity" :> Str("28")) @@ ("pressure" :> Str("1013.25")) @@
    [key \in _SENSOR_KEYS |->
        IF key = "pm1_0_atm" THEN Str("3.5")
        ELSE IF key = "pm2_5_atm" THEN Str("4.25") ELSE Str("12.1")]

WebBaseB ==
    ("ID" :> Num(1235, 1)) @@ ("Stats" :> Str("{\"lastModified\":1500}")) @@
    ("PM2_5Value" :> Str("12.1")) @@
    [key \in _SENSOR_KEYS |->
        IF key = "pm1_0_atm" THEN Str("0.0")
        ELSE IF key = "pm2_5_atm" THEN Str("3.5") ELSE Str("4.25")]

\* the channel A and channel B entries explored
WebChannelsA ==
    {[key \in DOMAIN WebBaseA |->
        IF key \in DOMAIN changes THEN changes[key] ELSE WebBaseA[key]] :
        changes \in {EmptyDict,
                     "PM2_5Value" :> Str("12.05"),
                     "PM2_5Value" :> Str("600.0"),
                     "humidity" :> Null,
                     "p_0_3_um" :> Null}}

WebChannelsB ==
    {[key \in DOMAIN WebBaseB |->
        IF key = "pm2_5_cf_1" THEN c ELSE WebBaseB[key]] :
        c \in {WebBaseB["pm2_5_cf_1"], Null}}

\* ------------------------------------------------------------------------
\* The decoded JSON document of a fetch: a LAN dict, or a Web document with
\* its "results" list
\* ------------------------------------------------------------------------

NoReading == [shape |-> "none", data |-> EmptyDict, results |-> <<>>]

LanDoc(data) == [shape |-> "lan", data |-> data, results |-> <<>>]

WebDoc(results) == [shape |-> "web", data |-> EmptyDict, results |-> results]

Readings(kind) ==
    IF kind = "lan" THEN {LanDoc(d) : d \in LanReadings}
    ELSE {WebDoc(<<>>)}
         \cup {WebDoc(<<a>>) : a \in WebChannelsA}
         \cup {WebDoc(<<a, b>>) : a \in WebChannelsA, b \in WebChannelsB}

\* the documents the poll-level specification draws from: a valid reading, a
\* reading of a booting sensor, and one on which the Measurement raises
PollReadings(kind) ==
    IF kind = "lan"
    THEN {LanDoc(LanBase),
          LanDoc(LanWith("p_0_3_um" :> Str("nan"))),
          LanDoc(LanWith("current_humidity" :> Str("nan")))}
    ELSE {WebDoc(<<WebBaseA, WebBaseB>>),
          WebDoc(<<[WebBaseA EXCEPT !["PM2_5Value"] = Str("12.05")], WebBaseB>>),
          WebDoc(<<>>)}

\* self._measurement_klass(sensor_data) followed by prepare_for_influxdb():
\* pa_web.Measurement.__init__ raises WebDataError on an empty results list
\* and leaves _ch_b at the class attribute {} when there is one channel
PrepareForInfluxdb(doc) ==
    IF doc.shape = "lan" THEN LanPrepare(doc.data)
    ELSE IF Len(doc.results) = 0 THEN Raised("WebDataError")
    ELSE WebPrepare(doc.results[1],
                    IF Len(doc.results) < 2 THEN EmptyDict ELSE doc.results[2])

\* ------------------------------------------------------------------------
\* PurpleAirDb
\* ------------------------------------------------------------------------

NoDbCall == [exc |-> "n/a", code |-> FALSE, content |-> FALSE]

\* _pop_none_from_dict that cleans the tags only
_pop_none_from_dict_TagsOnly(influx_point, category) ==
    LET d == influx_point[category]
    IN  IF category # "tags" THEN influx_point
        ELSE [influx_point EXCEPT
                ![category] = [key \in {k \in DOMAIN d : ~IsNone(d[k])} |-> d[key]]]

\* PurpleAirDb._pop_none_from_dict on one category of the point
_pop_none_from_dict(influx_point, category) ==
    LET d == influx_point[category]
    IN  [influx_point EXCEPT
            ![category] = [key \in {k \in DOMAIN d : ~IsNone(d[k])} |-> d[key]]]

\* init_database after create_database was requested: r1 and r2 are the
\* results of the two requests
DatabaseCreated(r1, r2) ==
    IF ~r2.returned
    THEN [connected |-> r2.connected, reports |-> r1.reports \o r2.reports,
          log |-> r1.log \o <<Info("Creating InfluxDB database: <name>")>> \o r2.log
                  \o <<Error("Cannot create InfluxDB database: <name>")>>,
          retval |-> FALSE]
    ELSE [connected |-> r2.connected, reports |-> r1.reports \o r2.reports,
          log |-> r1.log \o <<Info("Creating InfluxDB database: <name>")>> \o r2.log
                  \o <<Info("Using InfluxDB database: <name>")>>,
          retval |-> TRUE]

\* init_database after _get_database_names: r1 is the result of the
\* get_list_database request
DatabaseListed(r1, exists, create) ==
    IF ~r1.returned
    THEN [connected |-> r1.connected, reports |-> r1.reports,
          log |-> r1.log \o <<Error("Cannot fetch database names.")>>,
          retval |-> FALSE]
    ELSE IF ~exists
    THEN DatabaseCreated(r1, run_influx_request(r1.connected, create, ""))
    ELSE [connected |-> r1.connected, reports |-> r1.reports,
          log |-> r1.log \o <<Info("Using InfluxDB database: <name>")>>,
          retval |-> TRUE]

\* PurpleAirDb.init_database (with _get_database_names): list is the outcome
\* of get_list_database, exists whether the list holds the database name,
\* create the outcome of create_database
init_database(connected, list, exists, create) ==
    DatabaseListed(run_influx_request(connected, list, ""), exists, create)

\* no forcing before the first write
ForceFirstWrite_Never(connected, first_write) == connected

\* the value of _connected handed to the write request: forced to False
\* while no write has succeeded yet
ForceFirstWrite(connected, first_write) == IF first_write THEN FALSE ELSE connected

\* the validity line logged on every invalid reading
ValidityLog_EveryInvalid(last_sensor_read_valid, valid) ==
    IF valid
    THEN IF ~last_sensor_read_valid THEN <<Info(ValidDataMsg)>> ELSE <<>>
    ELSE <<Error(InvalidDataMsg)>>

\* the edge-triggered validity line of write_sensor_measurement: valid tells
\* whether prepare_for_influxdb returned a point
ValidityLog(last_sensor_read_valid, valid) ==
    IF valid
    THEN IF ~last_sensor_read_valid THEN <<Info(ValidDataMsg)>> ELSE <<>>
    ELSE IF last_sensor_read_valid THEN <<Error(InvalidDataMsg)>> ELSE <<>>

\* write_sensor_measurement once write_points was requested: r is the result
\* of run_influx_request, point the point handed over
PointWritten(db, valid_log, point, outcome, r) ==
    [db |-> [connected |-> r.connected,
             first_write |-> IF r.returned THEN FALSE ELSE db.first_write,
             last_sensor_read_valid |-> TRUE],
     log |-> valid_log \o r.log \o
             (IF r.returned THEN <<>> ELSE <<Warning(WriteFailedMsg)>>),
     reports |-> r.reports,
     written |-> <<point>>,
     outcome |-> outcome,
     retval |-> IF r.returned THEN "True" ELSE "False",
     exc |-> ""]

\* PurpleAirDb.write_sensor_measurement: db holds _connected, _first_write
\* and _last_sensor_read_valid; prep is the result of prepare_for_influxdb,
\* outcome what write_points does when it is called
write_sensor_measurement(db, prep, influx_measurement, outcome) ==
    IF prep.kind = "raise"
    THEN [db |-> db, log |-> <<>>, reports |-> <<>>, written |-> <<>>,
          outcome |-> NoDbCall, retval |-> "raise", exc |-> prep.exc]
    ELSE IF prep.kind = "none"
    THEN [db |-> [db EXCEPT !.last_sensor_read_valid = FALSE],
          log |-> ValidityLog(db.last_sensor_read_valid, FALSE),
          reports |-> <<>>, written |-> <<>>,
          outcome |-> NoDbCall, retval |-> "None", exc |-> ""]
    ELSE PointWritten(db, ValidityLog(db.last_sensor_read_valid, TRUE),
                      _pop_none_from_dict(
                          _pop_none_from_dict(
                              [prep.point EXCEPT !.measurement = influx_measurement],
                              "tags"),
                          "fields"),
                      outcome,
                      run_influx_request(ForceFirstWrite(db.connected, db.first_write),
                                         outcome, WrittenMsg))

\* ------------------------------------------------------------------------
\* SensorBase.query_and_write_database (with get_measurement and
\* query_sensor): fetch is what requests.get does, doc the decoded JSON
\* document of a 200 response, outcome what write_points does
\* ------------------------------------------------------------------------

\* the cycle when get_measurement returned a Measurement: mr is the result
\* of _make_request, prep of prepare_for_influxdb, w of
\* write_sensor_measurement
MeasurementWritten(mr, doc, prep, w) ==
    [connected |-> mr.connected, db |-> w.db,
     log |-> mr.log \o w.log,
     reports |-> mr.reports \o w.reports,
     reading |-> doc, prepared |-> prep.kind,
     written |-> w.written, outcome |-> w.outcome,
     retval |-> w.retval, exc |-> w.exc]

\* query_and_write_database after the request: "if measurement is None"
\* logs the fetch error and returns False
MeasurementFetched(mr, db, doc, prep, influx_measurement, outcome) ==
    IF mr.none \/ mr.text = ""
    THEN [connected |-> mr.connected, db |-> db,
          log |-> mr.log \o <<Error(FetchErrorMsg)>>,
          reports |-> mr.reports, reading |-> NoReading, prepared |-> "n/a",
          written |-> <<>>, outcome |-> NoDbCall, retval |-> "False", exc |-> ""]
    ELSE MeasurementWritten(mr, doc, prep,
            write_sensor_measurement(db, prep, influx_measurement, outcome))

query_and_write_database(kind, connected, db, fetch, doc, influx_measurement, outcome) ==
    MeasurementFetched(_make_request(kind, connected, fetch), db, doc,
                       PrepareForInfluxdb(doc), influx_measurement, outcome)

\* ------------------------------------------------------------------------
\* State of the writer process (scripts/purpleair_influx_writer.py main)
\* ------------------------------------------------------------------------

VARIABLES
    kind,                   \* "lan" (--lan-addr) or "web" (--web-sensor-id)
    n_queries,              \* --n-queries, 0 = poll for ever
    pc,                     \* position of main
    query_iter,             \* main's query_iter
    sensor_connected,       \* SensorBase._connected
    db_connected,           \* PurpleAirDb._connected
    first_write,            \* PurpleAirDb._first_write
    last_sensor_read_valid, \* PurpleAirDb._last_sensor_read_valid
    \* what the last operation did
    op,                     \* name of the last operation
    opLog,                  \* the lines it logged, in order
    mainLog,                \* the lines main logged around it
    reports,                \* the tracker calls it made, in order
    fetched,                \* what requests.get did in this poll
    reading,                \* the decoded document handed to the Measurement
    prepared,               \* kind of the prepare_for_influxdb result
    written,                \* the points handed to write_points
    dbOutcome,              \* what the write_points call did
    retval,                 \* the value returned by the operation
    \* history of the run
    sensorEvents,           \* tracker lines logged by the sensor link so far
    readHist,               \* validity of the last two readings prepared
    okWrites,               \* write_points calls that returned so far
    sensorOutage,           \* polls in a row, up to now, whose fetch could not connect
    outageBefore,           \* sensorOutage before the last poll
    dbOutage,               \* polls in a row, up to now, whose write could not reach the database
    clientStreak,           \* polls in a row, up to now, whose write raised InfluxDBClientError
    calls,                  \* direct tracker calls made (tracker-level specification)
    \* a call of a static method or of a constructor of the library
    fn,                     \* the function called last, "none" before any call
    args,                   \* its arguments
    result,                 \* what it returned or raised
    \* one Measurement instance and the objects it hands out
    m_state,                \* "none", "constructed", or "failed" (__init__ raised)
    heap,                   \* the dict objects: raw data and the point's tags and fields
    returned,               \* the results of the callers' prepare_for_influxdb calls
    wrote,                  \* write_sensor_measurement ran on the instance
    derived                 \* pm2_5_epa_correction and pm2_5_aqi_epa as read

vars ==
    <<kind, n_queries, pc, query_iter, sensor_connected, db_connected, first_write,
      last_sensor_read_valid, op, opLog, mainLog, reports, fetched, reading,
      prepared, written, dbOutcome, retval, sensorEvents, readHist,
      okWrites, sensorOutage, outageBefore, dbOutage, clientStreak, calls,
      fn, args, result, m_state, heap, returned, wrote, derived>>

libVars == <<fn, args, result>>

measVars == <<m_state, heap, returned, wrote, derived>>

histVars ==
    <<sensorEvents, readHist, okWrites, sensorOutage, outageBefore, dbOutage,
      clientStreak>>

NoFetch == [raises |-> FALSE, status |-> 0, text |-> ""]

\* the dict objects before a Measurement exists: self._data or self._ch_a,
\* self._ch_b, and the tags and fields dicts of the point built last
NoObjects == [raw_a |-> EmptyDict, raw_b |-> EmptyDict,
              tags |-> EmptyDict, fields |-> EmptyDict]

\* the derived properties were not read
NotRead == [read |-> FALSE, epa |-> Ok(Null), aqi_epa |-> Ok(Null)]

\* the state after PurpleAirDb(**kwargs) and Sensor(..., db) were constructed
Init ==
    /\ kind \in {"lan", "web"}
    /\ n_queries \in 0..MaxQueries
    /\ pc = "init_database"
    /\ query_iter = 0
    /\ sensor_connected = TRUE
    /\ db_connected = TRUE
    /\ first_write = TRUE
    /\ last_sensor_read_valid = FALSE
    /\ op = "none"
    /\ opLog = <<>>
    /\ mainLog = <<>>
    /\ reports = <<>>
    /\ fetched = NoFetch
    /\ reading = NoReading
    /\ prepared = "n/a"
    /\ written = <<>>
    /\ dbOutcome = NoDbCall
    /\ retval = "n/a"
    /\ sensorEvents = 0
    /\ readHist = <<"none", "none">>
    /\ okWrites = 0
    /\ sensorOutage = 0
    /\ outageBefore = 0
    /\ dbOutage = 0
    /\ clientStreak = 0
    /\ calls = 0
    /\ fn = "none"
    /\ args = <<>>
    /\ result = Ok(Null)
    /\ m_state = "none"
    /\ heap = NoObjects
    /\ returned = <<>>
    /\ wrote = FALSE
    /\ derived = NotRead

\* the tracker lines of one link among the reports of an operation
TrackerLines(rs, link) ==
    Cardinality({i \in 1..Len(rs) : rs[i].link = link /\ rs[i].log # <<>>})

\* main, "while not db.init_database(): time.sleep(init_db_interval)":
\* one call of init_database
InitDatabase ==
    /\ pc = "init_database"
    /\ \E list \in DbOutcomes, exists \in BOOLEAN, create \in DbOutcomes :
        \E r \in {init_database(db_connected, list, exists, create)} :
            /\ db_connected' = r.connected
            /\ op' = "init_database"
            /\ opLog' = r.log
            /\ reports' = r.reports
            /\ retval' = IF r.retval THEN "True" ELSE "False"
            /\ pc' = IF r.retval THEN "query" ELSE "init_sleep"
    /\ mainLog' = <<>>
    /\ fetched' = NoFetch
    /\ reading' = NoReading
    /\ prepared' = "n/a"
    /\ written' = <<>>
    /\ dbOutcome' = NoDbCall
    /\ UNCHANGED <<kind, n_queries, query_iter, sensor_connected, first_write,
                   last_sensor_read_valid, calls>>
    /\ UNCHANGED histVars
    /\ UNCHANGED <<libVars, measVars>>

\* time.sleep(init_db_interval) that ends the writer instead of retrying
InitSleep_GiveUp ==
    /\ pc = "init_sleep"
    /\ pc' = "exited"
    /\ UNCHANGED <<kind, n_queries, query_iter, sensor_connected, db_connected,
                   first_write, last_sensor_read_valid, op, opLog, mainLog, reports,
                   fetched, reading, prepared, written, dbOutcome, retval, calls>>
    /\ UNCHANGED histVars
    /\ UNCHANGED <<libVars, measVars>>

\* time.sleep(init_db_interval) returned
InitSleep ==
    /\ pc = "init_sleep"
    /\ pc' = "init_database"
    /\ UNCHANGED <<kind, n_queries, query_iter, sensor_connected, db_connected,
                   first_write, last_sensor_read_valid, op, opLog, mainLog, reports,
                   fetched, reading, prepared, written, dbOutcome, retval, calls>>
    /\ UNCHANGED histVars
    /\ UNCHANGED <<libVars, measVars>>

\* the series main writes to (--lan-live is left at its default)
InfluxMeasurement == IF kind = "lan" THEN "average" ELSE "sensors"

\* one pass of main's "while True" body with the collaborators' answers
\* given: query_iter += 1, the call of sensor.query_and_write_database, the
\* RuntimeError handler and the n_queries test.  Any other exception leaves
\* main.
Poll(fetch, doc, outcome) ==
    \E r \in {query_and_write_database(
                  kind, sensor_connected,
                  [connected |-> db_connected, first_write |-> first_write,
                   last_sensor_read_valid |-> last_sensor_read_valid],
                  fetch, doc, InfluxMeasurement, outcome)} :
    LET uncaught == r.retval = "raise" /\ r.exc # "RuntimeError"
        done == n_queries > 0 /\ query_iter + 1 = n_queries
    IN  /\ query_iter' = query_iter + 1
        /\ sensor_connected' = r.connected
        /\ db_connected' = r.db.connected
        /\ first_write' = r.db.first_write
        /\ last_sensor_read_valid' = r.db.last_sensor_read_valid
        /\ op' = "query_and_write_database"
        /\ opLog' = r.log
        /\ reports' = r.reports
        /\ fetched' = fetch
        /\ reading' = r.reading
        /\ prepared' = r.prepared
        /\ written' = r.written
        /\ dbOutcome' = r.outcome
        /\ retval' = IF r.retval = "raise" THEN r.exc ELSE r.retval
        /\ pc' = IF uncaught THEN "crashed"
                 ELSE IF done THEN "exited" ELSE "query_sleep"
        /\ mainLog' = IF uncaught THEN <<>>
                      ELSE (IF r.retval = "raise" THEN <<Error("<err>")>> ELSE <<>>)
                           \o (IF done
                               THEN <<Info("Finished writing sensor measurements to InfluxDB."),
                                      Info("Exiting PurpleAir InfluxDB writer.")>>
                               ELSE <<>>)
        /\ sensorEvents' = sensorEvents + TrackerLines(r.reports, "sensor")
        /\ readHist' = IF r.prepared = "point" THEN <<readHist[2], "valid">>
                       ELSE IF r.prepared = "none" THEN <<readHist[2], "invalid">>
                       ELSE readHist
        /\ okWrites' = IF r.retval = "True" THEN okWrites + 1 ELSE okWrites
        /\ sensorOutage' = IF fetch.raises THEN sensorOutage + 1 ELSE 0
        /\ outageBefore' = sensorOutage
        /\ dbOutage' = IF r.outcome.exc \in {"ConnectionError", "InfluxDBServerError"}
                       THEN dbOutage + 1 ELSE 0
        /\ clientStreak' = IF r.outcome.exc = "InfluxDBClientError"
                           THEN clientStreak + 1 ELSE 0
        /\ UNCHANGED <<kind, n_queries, calls>>
        /\ UNCHANGED <<libVars, measVars>>

\* a poll with every answer the collaborators can give: the document matters
\* only when the fetch returned one, the database only when a point is written
PollOver(docs) ==
    \E fetch \in Fetches :
        IF fetch.raises \/ fetch.status # 200 \/ fetch.text = ""
        THEN Poll(fetch, NoReading, DbOk)
        ELSE \E doc \in docs :
                IF PrepareForInfluxdb(doc).kind # "point"
                THEN Poll(fetch, doc, DbOk)
                ELSE \E outcome \in DbOutcomes : Poll(fetch, doc, outcome)

\* a poll of the writer
QueryAndWrite ==
    /\ pc = "query"
    /\ query_iter < MaxQueries
    /\ PollOver(PollReadings(kind))

\* a poll of the writer, the sensor answering with any of the readings
MeasureAndWrite ==
    /\ pc = "query"
    /\ query_iter < MaxReadingPolls
    /\ PollOver(Readings(kind))

\* time.sleep(max(query_interval - elapsed, 0)) returned
QuerySleep ==
    /\ pc = "query_sleep"
    /\ pc' = "query"
    /\ UNCHANGED <<kind, n_queries, query_iter, sensor_connected, db_connected,
                   first_write, last_sensor_read_valid, op, opLog, mainLog, reports,
                   fetched, reading, prepared, written, dbOutcome, retval, calls>>
    /\ UNCHANGED histVars
    /\ UNCHANGED <<libVars, measVars>>

\* Ctrl-C while main sleeps between two polls
KeyboardInterrupt ==
    /\ pc = "query_sleep"
    /\ pc' = "exited"
    /\ mainLog' = <<Info("Keyboard interrupt detected."),
                    Info("Exiting PurpleAir InfluxDB writer.")>>
    /\ UNCHANGED <<kind, n_queries, query_iter, sensor_connected, db_connected,
                   first_write, last_sensor_read_valid, op, opLog, reports,
                   fetched, reading, prepared, written, dbOutcome, retval, calls>>
    /\ UNCHANGED histVars
    /\ UNCHANGED <<libVars, measVars>>

Next ==
    \/ InitDatabase
    \/ InitSleep
    \/ QueryAndWrite
    \/ QuerySleep
    \/ KeyboardInterrupt

\* the writer, polling up to MaxQueries times
Spec == Init /\ [][Next]_vars

NextReadings ==
    \/ InitDatabase
    \/ InitSleep
    \/ MeasureAndWrite
    \/ QuerySleep
    \/ KeyboardInterrupt

\* the writer, the sensor answering with any of the readings
SpecReadings == Init /\ [][NextReadings]_vars

\* the writer under the scheduling of main: a call of init_database returns
\* and time.sleep(init_db_interval) returns
SpecLive == Init /\ [][Next]_vars /\ WF_vars(InitDatabase) /\ WF_vars(InitSleep)

\* ------------------------------------------------------------------------
\* The trackers on their own: any sequence of outcomes reported directly to
\* the two _set_connection_state methods of a constructed sensor and client
\* ------------------------------------------------------------------------

\* sensor._set_connection_state(state)
SensorReport ==
    /\ calls < MaxCalls
    /\ \E state \in BOOLEAN :
        LET r == SensorSetConnectionState(kind, sensor_connected, state)
        IN  /\ sensor_connected' = r.connected
            /\ reports' = <<Report("sensor", "direct", sensor_connected, state, r)>>
            /\ opLog' = r.log
            /\ retval' = IF r.changed THEN "True" ELSE "False"
            /\ sensorEvents' = sensorEvents + Len(r.log)
    /\ op' = "_set_connection_state"
    /\ calls' = calls + 1
    /\ UNCHANGED <<kind, n_queries, pc, query_iter, db_connected, first_write,
                   last_sensor_read_valid, mainLog, fetched, reading, prepared,
                   written, dbOutcome, readHist, okWrites, sensorOutage,
                   outageBefore, dbOutage, clientStreak>>
    /\ UNCHANGED <<libVars, measVars>>

\* db._set_connection_state(state)
DbReport ==
    /\ calls < MaxCalls
    /\ \E state \in BOOLEAN :
        LET r == DbSetConnectionState(db_connected, state)
        IN  /\ db_connected' = r.connected
            /\ reports' = <<Report("db", "direct", db_connected, state, r)>>
            /\ opLog' = r.log
            /\ retval' = IF r.changed THEN "True" ELSE "False"
    /\ op' = "_set_connection_state"
    /\ calls' = calls + 1
    /\ UNCHANGED <<kind, n_queries, pc, query_iter, sensor_connected, first_write,
                   last_sensor_read_valid, mainLog, fetched, reading, prepared,
                   written, dbOutcome, sensorEvents, readHist, okWrites,
                   sensorOutage, outageBefore, dbOutage, clientStreak>>
    /\ UNCHANGED <<libVars, measVars>>

NextTrackers == SensorReport \/ DbReport

SpecTrackers == Init /\ [][NextTrackers]_vars

\* ------------------------------------------------------------------------
\* pa_lan.Sensor.__init__: the address patterns.  A string is the sequence
\* of its characters; a pattern is a sequence of tokens.
\* ------------------------------------------------------------------------

Digit == {"0", "1", "2", "3", "4", "5", "6", "7", "8", "9"}

\* the tokens of the two patterns: \d+, the unescaped ".", a literal
Digits == [t |-> "digits", c |-> ""]

AnyChar == [t |-> "any", c |-> ""]

Lit(c) == [t |-> "lit", c |-> c]

\* r"\d+.\d+.\d+.\d+"
IpPattern == <<Digits, AnyChar, Digits, AnyChar, Digits, AnyChar, Digits>>

\* r"^purpleair-\d+"
HostnamePattern == <<Lit("p"), Lit("u"), Lit("r"), Lit("p"), Lit("l"), Lit("e"), Lit("a"), Lit("i"), Lit("r"), Lit("-"), Digits>>

\* the positions at which a match of the tokens k.. of pat that starts at
\* position i of s can end (the index after its last character)
RECURSIVE MatchEnds(_, _, _, _)
MatchEnds(pat, s, k, i) ==
    IF k > Len(pat) THEN {i}
    ELSE IF pat[k].t = "digits"
    THEN UNION {MatchEnds(pat, s, k + 1, j) :
                    j \in {e \in (i + 1)..(Len(s) + 1) :
                              \A m \in i..(e - 1) : s[m] \in Digit}}
    ELSE IF i > Len(s) THEN {}
    ELSE IF pat[k].t = "any"
    THEN (IF s[i] # "\n" THEN MatchEnds(pat, s, k + 1, i + 1) ELSE {})
    ELSE (IF s[i] = pat[k].c THEN MatchEnds(pat, s, k + 1, i + 1) ELSE {})

\* re.fullmatch(pat, s) is not None
fullmatch(pat, s) == (Len(s) + 1) \in MatchEnds(pat, s, 1, 1)

\* re.match(pat, s) is not None, for a pattern anchored at the start
match(pat, s) == MatchEnds(pat, s, 1, 1) # {}

\* str.lower() on the characters of an address
lower(s) ==
    [i \in 1..Len(s) |-> IF s[i] = "P" THEN "p" ELSE IF s[i] = "A" THEN "a" ELSE s[i]]

\* pa_lan.Sensor.__init__(addr): ValueError unless one pattern matches
LanSensorInit(addr) ==
    IF ~fullmatch(IpPattern, addr)
    THEN IF ~match(HostnamePattern, lower(addr))
         THEN Raise("ValueError")
         ELSE Ok(Null)
    ELSE Ok(Null)

\* the addresses a user may pass as --lan-addr
Addresses ==
    {<<"1", "9", "2", ".", "1", "6", "8", ".", "1", ".", "5">>,
     <<"1", "0", ".", "0", ".", "0", ".", "7">>,
     <<"p", "u", "r", "p", "l", "e", "a", "i", "r", "-", "1", "2", "3", "4">>,
     <<"P", "u", "r", "p", "l", "e", "A", "i", "r", "-", "1", "2", "3", "4">>,
     <<"1", "a", "2", "b", "3", "c", "4">>,
     <<"1", "2", "3", "4", "5", "6", "7">>,
     <<"1", "9", "2", ".", "1", "6", "8", ".", "1">>,
     <<"p", "u", "r", "p", "l", "e", "a", "i", "r", "-", "1", "2", ".", "l", "a", "n">>,
     <<"p", "u", "r", "p", "l", "e", "a", "i", "r", "-">>,
     <<"e", "x", "a", "m", "p", "l", "e", ".", "c", "o", "m">>,
     <<>>}

\* ------------------------------------------------------------------------
\* The library called directly: the static methods of the Measurement
\* classes, with arguments from the sets below
\* ------------------------------------------------------------------------

\* PM2.5 concentrations handed to get_epa_correction, None included
EpaConcentrations == {Null, Num(0, 1), Num(5, 10), Num(1205, 100), Num(250, 1)}

\* relative humidities handed to get_epa_correction, None included
EpaHumidities == {Null, Num(0, 1), Num(28, 1), Num(100, 1)}

\* PM2.5 concentrations handed to the AQI calculators: the limits of the
\* tables, values between two buckets, negative values and values above the
\* last bucket
AqiConcentrations ==
    {Num(-5, 10), Num(-5, 100), Num(0, 1), Num(120, 10), Num(1205, 100),
     Num(1209, 100), Num(121, 10), Num(25, 1), Num(354, 10), Num(3549, 100),
     Num(355, 10), Num(5004, 10), Num(5005, 10), Num(600, 1)}

\* MeasurementBase.get_epa_correction(a, b, humidity), called on the class
\* while no instance exists
GetEpaCorrection ==
    /\ m_state = "none"
    /\ \E a \in EpaConcentrations, b \in EpaConcentrations, h \in EpaHumidities :
        /\ args' = <<a, b, h>>
        /\ result' = get_epa_correction(a, b, h)
    /\ fn' = "get_epa_correction"
    /\ UNCHANGED <<kind, n_queries, pc, query_iter, sensor_connected, db_connected,
                   first_write, last_sensor_read_valid, op, opLog, mainLog, reports,
                   fetched, reading, prepared, written, dbOutcome, retval, calls>>
    /\ UNCHANGED histVars
    /\ UNCHANGED measVars

\* MeasurementBase.get_aqi(pm_2_5)
GetAqi ==
    /\ \E pm \in AqiConcentrations :
        /\ args' = <<pm>>
        /\ result' = Ok(get_aqi(pm))
    /\ fn' = "get_aqi"
    /\ UNCHANGED <<kind, n_queries, pc, query_iter, sensor_connected, db_connected,
                   first_write, last_sensor_read_valid, op, opLog, mainLog, reports,
                   fetched, reading, prepared, written, dbOutcome, retval, calls>>
    /\ UNCHANGED histVars
    /\ UNCHANGED measVars

\* pa_web.Measurement._get_aqi(pm_2_5)
WebGetAqi ==
    /\ \E pm \in AqiConcentrations :
        /\ args' = <<pm>>
        /\ result' = _get_aqi(pm)
    /\ fn' = "_get_aqi"
    /\ UNCHANGED <<kind, n_queries, pc, query_iter, sensor_connected, db_connected,
                   first_write, last_sensor_read_valid, op, opLog, mainLog, reports,
                   fetched, reading, prepared, written, dbOutcome, retval, calls>>
    /\ UNCHANGED histVars
    /\ UNCHANGED measVars

\* pa_lan.Sensor(addr)
SensorInit ==
    /\ \E addr \in Addresses :
        /\ args' = <<addr>>
        /\ result' = LanSensorInit(addr)
    /\ fn' = "Sensor.__init__"
    /\ UNCHANGED <<kind, n_queries, pc, query_iter, sensor_connected, db_connected,
                   first_write, last_sensor_read_valid, op, opLog, mainLog, reports,
                   fetched, reading, prepared, written, dbOutcome, retval, calls>>
    /\ UNCHANGED histVars
    /\ UNCHANGED measVars

NextLibrary ==
    \/ GetEpaCorrection
    \/ GetAqi
    \/ WebGetAqi
    \/ SensorInit

\* any sequence of direct calls of the library
SpecLibrary == Init /\ [][NextLibrary]_vars

\* ------------------------------------------------------------------------
\* One Measurement instance: construction from a decoded document, the
\* callers' prepare_for_influxdb calls, a write_sensor_measurement call on
\* it, and a read of its derived properties.  The dicts are objects of the
\* heap, so that a dict handed out and changed by its receiver is seen by
\* everyone who holds it.
\* ------------------------------------------------------------------------

\* prepare_for_influxdb handing out the raw data dict as the fields
PointRefs_SharedFields == [tags |-> "tags", fields |-> "raw_a"]

\* the objects of the point prepare_for_influxdb builds: tags and fields are
\* dicts created in the call
PointRefs == [tags |-> "tags", fields |-> "fields"]

\* the dicts the Measurement reads: self._data, or self._ch_a and self._ch_b
\* (the class attribute {} when the document has one channel)
MeasurementObjects(doc) ==
    [NoObjects EXCEPT
        !.raw_a = IF doc.shape = "lan" THEN doc.data ELSE doc.results[1],
        !.raw_b = IF doc.shape = "web" /\ Len(doc.results) >= 2
                  THEN doc.results[2] ELSE EmptyDict]

\* prepare_for_influxdb of the instance of class k whose dicts are in h
MeasurementPrepare(k, h) ==
    IF k = "lan" THEN LanPrepare(h.raw_a) ELSE WebPrepare(h.raw_a, h.raw_b)

\* the heap after prepare_for_influxdb filled the dicts of its point
StorePoint(h, prep) ==
    IF prep.kind # "point" THEN h
    ELSE [h EXCEPT ![PointRefs.tags] = prep.point.tags,
                   ![PointRefs.fields] = prep.point.fields]

\* the result of prepare_for_influxdb as its caller reads it
PointSeen(h, prep) ==
    IF prep.kind # "point" THEN prep
    ELSE Point(prep.point.time, h[PointRefs.tags], h[PointRefs.fields])

\* the heap after write_sensor_measurement popped the None values from the
\* dicts of the point it prepared: w is its result
PointPopped(h, w) ==
    IF w.written = <<>> THEN h
    ELSE [h EXCEPT ![PointRefs.tags] = w.written[1].tags,
                   ![PointRefs.fields] = w.written[1].fields]

\* the first exception of three evaluations, else get_epa_correction on
\* their values
EpaOf(a, b, humidity) ==
    IF ~a.ok THEN a
    ELSE IF ~b.ok THEN b
    ELSE IF ~humidity.ok THEN humidity
    ELSE get_epa_correction(a.val, b.val, humidity.val)

\* the properties pm2_5_cf_1, pm2_5_cf_1_b and humidity of the instance
EpaInputs(k, h) ==
    IF k = "lan"
    THEN <<Item(h.raw_a, "pm2_5_cf_1"), Item(h.raw_a, "pm2_5_cf_1_b"),
           Item(h.raw_a, "current_humidity")>>
    ELSE <<WebChannelA(h.raw_a, "pm2_5_cf_1"), WebChannelB(h.raw_b, "pm2_5_cf_1"),
           WebOptInt(h.raw_a, "humidity")>>

\* MeasurementBase.pm2_5_epa_correction of the instance
pm2_5_epa_correction(k, h) ==
    EpaOf(EpaInputs(k, h)[1], EpaInputs(k, h)[2], EpaInputs(k, h)[3])

\* self._measurement_klass(sensor_data), in a run that did not call the
\* static method
Construct ==
    /\ m_state = "none"
    /\ fn = "none"
    /\ \E doc \in Readings(kind) :
        /\ reading' = doc
        /\ IF doc.shape = "web" /\ Len(doc.results) = 0
           THEN /\ m_state' = "failed"
                /\ heap' = heap
           ELSE /\ m_state' = "constructed"
                /\ heap' = MeasurementObjects(doc)
    /\ op' = "Measurement"
    /\ UNCHANGED <<kind, n_queries, pc, query_iter, sensor_connected, db_connected,
                   first_write, last_sensor_read_valid, opLog, mainLog, reports,
                   fetched, prepared, written, dbOutcome, retval, calls>>
    /\ UNCHANGED histVars
    /\ UNCHANGED <<libVars, returned, wrote, derived>>

\* a caller's measurement.prepare_for_influxdb(), the first or the second
Prepare ==
    /\ m_state = "constructed"
    /\ Len(returned) < 2
    /\ \E prep \in {MeasurementPrepare(kind, heap)} :
        /\ heap' = StorePoint(heap, prep)
        /\ returned' = Append(returned, PointSeen(StorePoint(heap, prep), prep))
        /\ prepared' = prep.kind
    /\ op' = "prepare_for_influxdb"
    /\ UNCHANGED <<kind, n_queries, pc, query_iter, sensor_connected, db_connected,
                   first_write, last_sensor_read_valid, opLog, mainLog, reports,
                   fetched, reading, written, dbOutcome, retval, calls>>
    /\ UNCHANGED histVars
    /\ UNCHANGED <<libVars, m_state, wrote, derived>>

\* db.write_sensor_measurement(measurement, influx_measurement) with what
\* write_points does
Write(outcome) ==
    \E prep \in {MeasurementPrepare(kind, heap)} :
    \E w \in {write_sensor_measurement(
                  [connected |-> db_connected, first_write |-> first_write,
                   last_sensor_read_valid |-> last_sensor_read_valid],
                  PointSeen(StorePoint(heap, prep), prep), InfluxMeasurement, outcome)} :
        /\ (prep.kind # "point") => outcome = DbOk
        /\ heap' = PointPopped(StorePoint(heap, prep), w)
        /\ db_connected' = w.db.connected
        /\ first_write' = w.db.first_write
        /\ last_sensor_read_valid' = w.db.last_sensor_read_valid
        /\ opLog' = w.log
        /\ reports' = w.reports
        /\ prepared' = prep.kind
        /\ written' = w.written
        /\ dbOutcome' = w.outcome
        /\ retval' = IF w.retval = "raise" THEN w.exc ELSE w.retval
        /\ okWrites' = IF w.retval = "True" THEN okWrites + 1 ELSE okWrites
        /\ readHist' = IF prep.kind = "point" THEN <<readHist[2], "valid">>
                       ELSE IF prep.kind = "none" THEN <<readHist[2], "invalid">>
                       ELSE readHist

\* one write_sensor_measurement call on the instance
WriteSensorMeasurement ==
    /\ m_state = "constructed"
    /\ ~wrote
    /\ Len(returned) < 2
    /\ \E outcome \in DbOutcomes : Write(outcome)
    /\ wrote' = TRUE
    /\ op' = "write_sensor_measurement"
    /\ UNCHANGED <<kind, n_queries, pc, query_iter, sensor_connected, mainLog,
                   fetched, reading, calls, sensorEvents, sensorOutage, outageBefore,
                   dbOutage, clientStreak>>
    /\ UNCHANGED <<libVars, m_state, returned, derived>>

\* a read of measurement.pm2_5_epa_correction and measurement.pm2_5_aqi_epa
ReadDerived ==
    /\ m_state = "constructed"
    /\ ~derived.read
    /\ derived' = [read |-> TRUE,
                   epa |-> pm2_5_epa_correction(kind, heap),
                   aqi_epa |-> pm2_5_aqi_epa(pm2_5_epa_correction(kind, heap))]
    /\ op' = "pm2_5_aqi_epa"
    /\ UNCHANGED <<kind, n_queries, pc, query_iter, sensor_connected, db_connected,
                   first_write, last_sensor_read_valid, opLog, mainLog, reports,
                   fetched, reading, prepared, written, dbOutcome, retval, calls>>
    /\ UNCHANGED histVars
    /\ UNCHANGED <<libVars, m_state, heap, returned, wrote>>

NextMeasurement ==
    \/ GetEpaCorrection
    \/ Construct
    \/ Prepare
    \/ WriteSensorMeasurement
    \/ ReadDerived

\* the life of one Measurement instance
SpecMeasurement == Init /\ [][NextMeasurement]_vars

\* ------------------------------------------------------------------------
\* The accessors of one Measurement instance, read one at a time by a
\* caller: fn is the property read, result what it returned or raised
\* ------------------------------------------------------------------------

\* key.endswith(suffix), suffix given by its characters
EndsWith(key, suffix) ==
    /\ Len(Chars[key]) >= Len(suffix)
    /\ SubSeq(Chars[key], Len(Chars[key]) - Len(suffix) + 1, Len(Chars[key])) = suffix

\* the reading of a LAN sensor with a single laser counter: no key of the
\* second channel
LanOneChannel ==
    [key \in {k \in DOMAIN LanBase : ~EndsWith(k, <<"_", "b">>)} |-> LanBase[key]]

\* the documents handed to the Measurement classes: the readings of the
\* writer and the one-channel LAN reading
ChannelReadings(k) ==
    IF k = "lan" THEN Readings(k) \cup {LanDoc(LanOneChannel)} ELSE Readings(k)

\* the raw key each pa_lan.Measurement property reads
LanAccessorKey ==
    ("sensor_id" :> "SensorId") @@ ("lat" :> "lat") @@ ("lon" :> "lon") @@
    ("place" :> "place") @@ ("rssi" :> "rssi") @@ ("uptime" :> "uptime") @@
    ("temp_f" :> "current_temp_f") @@ ("humidity" :> "current_humidity") @@
    ("dew_point_f" :> "current_dewpoint_f") @@ ("pressure" :> "pressure") @@
    ("pm2_5_aqi" :> "pm2.5_aqi") @@ ("pm2_5_aqi_b" :> "pm2.5_aqi_b") @@
    ("p_0_3_um" :> "p_0_3_um") @@ ("p_0_3_um_b" :> "p_0_3_um_b") @@
    ("pm2_5_cf_1" :> "pm2_5_cf_1") @@ ("pm2_5_cf_1_b" :> "pm2_5_cf_1_b")

\* the properties of the two derived EPA values
DerivedAccessors == {"pm2_5_epa_correction", "pm2_5_aqi_epa"}

\* the properties of pa_web.Measurement other than the sensor keys
WebPlainAccessors ==
    {"sensor_id", "lat", "lon", "place", "rssi", "uptime", "temp_f", "humidity",
     "pressure", "pm2_5_aqi", "pm2_5_aqi_b"}

\* the properties read: for the LAN class those whose raw key the readings
\* explored carry
Accessors(k) ==
    IF k = "lan" THEN DOMAIN LanAccessorKey \cup DerivedAccessors
    ELSE WebPlainAccessors \cup _SENSOR_KEYS \cup {Suffixed(key) : key \in _SENSOR_KEYS}
         \cup DerivedAccessors

\* a derived property of the instance of class k whose dicts are in h
DerivedAccessor(k, h, name) ==
    IF name = "pm2_5_epa_correction" THEN pm2_5_epa_correction(k, h)
    ELSE pm2_5_aqi_epa(pm2_5_epa_correction(k, h))

\* a property of pa_lan.Measurement: self._data[key]
LanAccessor(h, name) ==
    IF name \in DerivedAccessors THEN DerivedAccessor("lan", h, name)
    ELSE Item(h.raw_a, LanAccessorKey[name])

\* a property of pa_web.Measurement
WebAccessor(h, name) ==
    IF name \in DerivedAccessors THEN DerivedAccessor("web", h, name)
    ELSE IF name \in _SENSOR_KEYS THEN WebChannelA(h.raw_a, name)
    ELSE IF \E key \in _SENSOR_KEYS : Suffixed(key) = name
    THEN WebChannelB(h.raw_b, CHOOSE key \in _SENSOR_KEYS : Suffixed(key) = name)
    ELSE IF name = "sensor_id" THEN Item(h.raw_a, "ID")
    ELSE IF name = "lat" THEN Item(h.raw_a, "Lat")
    ELSE IF name = "lon" THEN Item(h.raw_a, "Lon")
    ELSE IF name = "place" THEN Ok(Get(h.raw_a, "DEVICE_LOCATIONTYPE"))
    ELSE IF name = "rssi" THEN WebOptInt(h.raw_a, "RSSI")
    ELSE IF name = "uptime" THEN WebOptInt(h.raw_a, "Uptime")
    ELSE IF name = "temp_f" THEN WebOptInt(h.raw_a, "temp_f")
    ELSE IF name = "humidity" THEN WebOptInt(h.raw_a, "humidity")
    ELSE IF name = "pressure" THEN WebOptFloat(h.raw_a, "pressure")
    ELSE IF name = "pm2_5_aqi" THEN WebAqiA(h.raw_a)
    ELSE WebAqiB(h.raw_b)

\* getattr(measurement, name)
Accessor(k, h, name) ==
    IF k = "lan" THEN LanAccessor(h, name) ELSE WebAccessor(h, name)

\* self._measurement_klass(sensor_data) on a document of a sensor with one
\* or with two channels
ConstructChannels ==
    /\ m_state = "none"
    /\ \E doc \in ChannelReadings(kind) :
        /\ reading' = doc
        /\ IF doc.shape = "web" /\ Len(doc.results) = 0
           THEN /\ m_state' = "failed"
                /\ heap' = heap
           ELSE /\ m_state' = "constructed"
                /\ heap' = MeasurementObjects(doc)
    /\ op' = "Measurement"
    /\ UNCHANGED <<kind, n_queries, pc, query_iter, sensor_connected, db_connected,
                   first_write, last_sensor_read_valid, opLog, mainLog, reports,
                   fetched, prepared, written, dbOutcome, retval, calls>>
    /\ UNCHANGED histVars
    /\ UNCHANGED <<libVars, returned, wrote, derived>>

\* a caller reads one property of the Measurement
ReadAccessor ==
    /\ m_state = "constructed"
    /\ \E name \in Accessors(kind) :
        /\ fn' = name
        /\ result' = Accessor(kind, heap, name)
    /\ args' = <<>>
    /\ UNCHANGED <<kind, n_queries, pc, query_iter, sensor_connected, db_connected,
                   first_write, last_sensor_read_valid, op, opLog, mainLog, reports,
                   fetched, reading, prepared, written, dbOutcome, retval, calls>>
    /\ UNCHANGED histVars
    /\ UNCHANGED measVars

NextAccessors ==
    \/ ConstructChannels
    \/ ReadAccessor

\* one Measurement instance and the reads of its properties
SpecAccessors == Init /\ [][NextAccessors]_vars

\* ------------------------------------------------------------------------
\* Properties
\* ------------------------------------------------------------------------

\* the messages of a sequence of log lines
Msgs(log) == {log[i].msg : i \in 1..Len(log)}

\* line m is directly followed by line n in the log
FollowedBy(log, m, n) ==
    \E i \in 1..(Len(log) - 1) : log[i].msg = m /\ log[i + 1].msg = n

IsPoll == op = "query_and_write_database"

\* the tracker line a report must carry: none when the outcome repeats the
\* held state, else the link's lost (ERROR) or connected (INFO) line
ExpectedLine(r) ==
    IF r.before = r.outcome THEN <<>>
    ELSE IF r.outcome
    THEN <<Info(IF r.link = "db" THEN DbConnectedMsg ELSE _regained_connection_msg(kind))>>
    ELSE <<Error(IF r.link = "db" THEN DbLostMsg ELSE _lost_connection_msg(kind))>>

\* C1: every call of _set_connection_state, on the sensor link and on the
\* database link, returns "changed" and logs its tracker line exactly when
\* the reported outcome differs from the state held before (ERROR "lost" on
\* Connected->failure, INFO "connected" on Disconnected->success, nothing
\* otherwise), and leaves the held state equal to the reported outcome.
C1_EdgeTriggered ==
    /\ \A i \in 1..Len(reports) :
        /\ reports[i].changed <=> (reports[i].before # reports[i].outcome)
        /\ reports[i].log = ExpectedLine(reports[i])
        /\ reports[i].after = reports[i].outcome
    /\ op = "_set_connection_state" =>
        /\ reports[1].link = "sensor" => sensor_connected = reports[1].outcome
        /\ reports[1].link = "db" => db_connected = reports[1].outcome
        /\ opLog = ExpectedLine(reports[1])
        /\ retval = (IF reports[1].before # reports[1].outcome THEN "True" ELSE "False")

\* C1 witness: the sensor link regained its connection and the database
\* link lost it
C1_Witness ==
    /\ op = "_set_connection_state"
    /\ reports[1].link = "sensor"
    /\ ~reports[1].before /\ reports[1].outcome
    /\ ~db_connected

\* the step is a poll of the writer
PollStep == op' = "query_and_write_database" /\ query_iter' = query_iter + 1

\* the fetch of the last poll raised ConnectionError / answered 200 with a
\* document
FetchRaised == IsPoll /\ fetched.raises

FetchOk == IsPoll /\ ~fetched.raises /\ fetched.status = 200 /\ fetched.text # ""

\* C2: after the fetch outcomes [transport failure, transport failure,
\* transport failure, successful fetch] the sensor link has logged exactly
\* two tracker lines (one lost, one regained) and is Connected.
C2_FailFailFailSuccess ==
    (query_iter = 4 /\ outageBefore = 3 /\ FetchOk)
        => (sensorEvents = 2 /\ sensor_connected)

\* C3: a database request that raised InfluxDBClientError leaves the
\* database tracker in the state it held before the request.
C3_ClientErrorKeepsState ==
    \A i \in 1..Len(reports) :
        (reports[i].link = "db" /\ reports[i].cause = "InfluxDBClientError")
            => reports[i].after = reports[i].before

\* the ERROR lines "InfluxDB Client Error" of a log
ClientErrorLines(log) ==
    {i \in 1..Len(log) :
        log[i].level = "ERROR" /\ log[i].msg \in {ClientErrorMsg, ClientErrorCodeMsg}}

\* C4: every database request that raised InfluxDBClientError logged its
\* "InfluxDB Client Error" ERROR line in the same call: the operation's log
\* holds one such line per failed request, whatever the tracker state was
\* and however many client errors came before.
C4_ClientErrorAlwaysLogged ==
    Cardinality(ClientErrorLines(opLog))
        = Cardinality({i \in 1..Len(reports) :
                          reports[i].link = "db" /\ reports[i].cause = "InfluxDBClientError"})

\* C4 witness: the second poll in a row whose write raised a client error,
\* and one raised while the tracker was Connected
C4_Witness ==
    /\ IsPoll
    /\ clientStreak >= 2
    /\ okWrites >= 1
    /\ reports[Len(reports)].before

\* C5: from the second poll of an outage on (sensor unreachable in every
\* poll, or database unreachable in every poll) query_and_write_database
\* logs nothing.
C5_QuietOutage ==
    (IsPoll /\ (sensorOutage >= 2 \/ dbOutage >= 2)) => opLog = <<>>

\* C6: a poll whose fetch fails (ConnectionError or a status other than 200)
\* calls write_points not at all, leaves the database tracker and the
\* first-write flag as they were and returns False; after a ConnectionError
\* the sensor tracker was reported False and is Disconnected.
C6_FetchFailureAborts ==
    [][(PollStep /\ (fetched'.raises \/ fetched'.status # 200))
        => /\ written' = <<>>
           /\ dbOutcome' = NoDbCall
           /\ db_connected' = db_connected
           /\ first_write' = first_write
           /\ retval' = "False"
           /\ fetched'.raises =>
                /\ Len(reports') = 1
                /\ reports'[1].link = "sensor" /\ ~reports'[1].outcome
                /\ ~sensor_connected']_vars

\* C6 witness: a poll answered with status 404 after the first write went
\* through, the sensor link being Disconnected from an earlier poll
C6_Witness ==
    /\ IsPoll
    /\ ~fetched.raises /\ fetched.status = 404
    /\ ~sensor_connected
    /\ ~first_write
    /\ retval = "False"

\* C7: a reading for which prepare_for_influxdb returns None is not written
\* and leaves the database tracker alone; the "invalid data" line is logged
\* only for an invalid reading that directly follows a valid one, the "valid
\* data" line only for a valid reading that does not directly follow a valid
\* one.
C7_ValidityEdges ==
    [][PollStep
        => /\ prepared' = "none" =>
                /\ written' = <<>>
                /\ dbOutcome' = NoDbCall
                /\ db_connected' = db_connected
           /\ InvalidDataMsg \in Msgs(opLog') =>
                (prepared' = "none" /\ readHist[2] = "valid")
           /\ ValidDataMsg \in Msgs(opLog') =>
                (prepared' = "point" /\ readHist[2] # "valid")
           /\ (prepared' = "none" /\ readHist[2] = "invalid") =>
                InvalidDataMsg \notin Msgs(opLog')
           /\ (prepared' = "point" /\ readHist[2] = "valid") =>
                ValidDataMsg \notin Msgs(opLog')]_vars

\* C7 witness: an invalid reading right after another invalid one, the one
\* before having been written
C7_Witness ==
    /\ IsPoll
    /\ prepared = "none"
    /\ readHist = <<"invalid", "invalid">>
    /\ okWrites >= 1
    /\ opLog = <<>>

\* C8: no point handed to write_points holds a key with a null value in
\* its tags or in its fields.
C8_NoNullInPoint ==
    \A i \in 1..Len(written) :
        /\ \A k \in DOMAIN written[i].tags : ~IsNone(written[i].tags[k])
        /\ \A k \in DOMAIN written[i].fields : ~IsNone(written[i].fields[k])

\* C8 witness: a two-channel Web reading whose channel B reports null for
\* pm2_5_cf_1 was written, without that field
C8_Witness ==
    /\ IsPoll
    /\ reading.shape = "web"
    /\ Len(reading.results) = 2
    /\ IsNone(reading.results[2]["pm2_5_cf_1"])
    /\ Len(written) = 1
    /\ "pm2_5_cf_1_b" \notin DOMAIN written[1].fields
    /\ "pm2_5_cf_1" \in DOMAIN written[1].fields

\* the keys of a LAN reading that start with "p_" or "pm"
LanParticleKeys ==
    {"p_0_3_um", "p_0_3_um_b", "pm2_5_cf_1", "pm2_5_cf_1_b", "pm2.5_aqi", "pm2.5_aqi_b"}

\* C9: a LAN reading in which a "p_" or "pm" key holds "nan" gives no point:
\* prepare_for_influxdb returns None whatever the other keys hold.
C9_NanGivesNoData ==
    (IsPoll /\ reading.shape = "lan"
        /\ \E key \in LanParticleKeys : IsNan(reading.data[key]))
        => prepared = "none"

\* C9 witness: "nan" in pm2_5_cf_1_b together with a "nan" humidity
C9_Witness ==
    /\ IsPoll
    /\ reading.shape = "lan"
    /\ IsNan(reading.data["pm2_5_cf_1_b"])
    /\ IsNan(reading.data["current_humidity"])
    /\ prepared = "none"

\* C10: the first write_points call that returns logs "Connected to
\* InfluxDB." directly followed by "Sensor measurement written to
\* InfluxDB.".
C10_FirstWriteConfirmed ==
    (IsPoll /\ retval = "True" /\ okWrites = 1)
        => FollowedBy(opLog, DbConnectedMsg, WrittenMsg)

\* C10 witness: the first write that returns comes in the third poll or
\* later, after polls that wrote nothing
C10_Witness ==
    /\ IsPoll
    /\ retval = "True"
    /\ okWrites = 1
    /\ query_iter >= 3
    /\ FollowedBy(opLog, DbConnectedMsg, WrittenMsg)

\* main waits for the database
Waiting == pc \in {"init_database", "init_sleep"}

\* C11: while main waits for the database nothing was fetched and nothing
\* written; main leaves the wait only by a call of init_database that
\* returned True, and then polls; a call that returned False is followed by
\* the sleep and the sleep by another call; a poll is made only from the
\* polling loop; and if from some time on every database request of
\* init_database is answered, the polling loop is eventually entered.
C11_InitBeforePolling ==
    /\ [](Waiting => /\ query_iter = 0
                     /\ fetched = NoFetch
                     /\ written = <<>>
                     /\ okWrites = 0
                     /\ sensorEvents = 0)
    /\ [][(Waiting /\ ~Waiting')
            => (pc = "init_database" /\ op' = "init_database"
                /\ retval' = "True" /\ pc' = "query")]_vars
    /\ [][(pc = "init_database" /\ retval' = "False") => pc' = "init_sleep"]_vars
    /\ [][pc = "init_sleep" => pc' = "init_database"]_vars
    /\ [][PollStep => pc = "query"]_vars
    /\ (<>[][pc = "init_database"
                => \A i \in 1..Len(reports') : reports'[i].cause = "none"]_vars)
            => <>(pc = "query")

\* C11 witness: the polling loop is entered by a call of init_database that
\* found the database again after an earlier call had lost it
C11_Witness ==
    /\ pc = "query"
    /\ op = "init_database"
    /\ retval = "True"
    /\ query_iter = 0
    /\ DbConnectedMsg \in Msgs(opLog)

\* the last poll met one of the runtime conditions: a transport failure, a
\* status other than 200, a Web document with empty "results", a PM2.5 value
\* outside the AQI table, or a database error
RuntimeCondition ==
    \/ fetched.raises
    \/ fetched.status # 200
    \/ reading.shape = "web" /\ Len(reading.results) = 0
    \/ retval = "RuntimeError"
    \/ dbOutcome.exc \in {"ConnectionError", "InfluxDBServerError", "InfluxDBClientError"}

\* C12: a poll that met a runtime condition ends the cycle only: main goes on
\* to the sleep before the next poll, or finishes because n_queries polls
\* were made.
C12_PollNeverFatal ==
    (IsPoll /\ RuntimeCondition)
        => (pc = "query_sleep" \/ (pc = "exited" /\ query_iter = n_queries))

\* a number in hundredths (the arguments have den 1, 10 or 100)
Hundredths(v) == v.num * (100 \div v.den)

\* 0.534 * (a + b) / 2 - 0.0844 * humidity + 5.604 in millionths
EpaFormula(a, b, humidity) ==
    2670 * (Hundredths(a) + Hundredths(b)) - 844 * Hundredths(humidity) + 5604000

\* C14: for concentrations and humidity that are numbers >= 0,
\* get_epa_correction returns max(0, 0.534*(A+B)/2 - 0.0844*humidity + 5.604),
\* which is never negative.
C14_EpaClamped ==
    (fn = "get_epa_correction"
        /\ \A i \in 1..3 : args[i].kind = "num" /\ args[i].num >= 0)
        => /\ result.ok
           /\ result.val.kind = "num"
           /\ result.val.num >= 0
           /\ result.val.den = 1000000
           /\ result.val.num = (IF EpaFormula(args[1], args[2], args[3]) > 0
                                THEN EpaFormula(args[1], args[2], args[3]) ELSE 0)

\* C14 witness: clean air at 100 % humidity, where the formula is negative
\* and the result is 0
C14_Witness ==
    /\ fn = "get_epa_correction"
    /\ args = <<Num(5, 10), Num(0, 1), Num(100, 1)>>
    /\ EpaFormula(args[1], args[2], args[3]) < 0
    /\ result = Ok(Num(0, 1000000))

\* the result of the AQI calculator called last is the number n
AqiIs(n) == result.ok /\ result.val.kind = "num" /\ result.val.num = n * result.val.den

\* C15: both AQI calculators return 50 for 12.0 and 51 for 12.1, and in
\* both tables every bucket starts one tenth above the end of the bucket
\* before it.
C15_BreakpointContinuity ==
    /\ (fn \in {"get_aqi", "_get_aqi"} /\ args = <<Num(120, 10)>>) => AqiIs(50)
    /\ (fn \in {"get_aqi", "_get_aqi"} /\ args = <<Num(121, 10)>>) => AqiIs(51)
    /\ \A i \in 1..(Len(concentration_limits) - 1) :
        /\ concentration_limits[i + 1][1] = concentration_limits[i][2] + 1
        /\ web_concentration_limits[i + 1][1] = web_concentration_limits[i][2] + 1
        /\ aqi_limits[i + 1][1] = aqi_limits[i][2] + 1

\* C15 witness: the Web calculator returned 50 for 12.0
C15_Witness ==
    /\ fn = "_get_aqi"
    /\ args = <<Num(120, 10)>>
    /\ AqiIs(50)

\* the concentration is negative or above 500.4
OutOfRange(pm) == pm.num < 0 \/ pm.num * 10 > 5004 * pm.den

\* C16: for a concentration that is negative or above 500.4 both AQI
\* calculators raise and return no value.
C16_OutOfRangeRaises ==
    (fn \in {"get_aqi", "_get_aqi"} /\ OutOfRange(args[1])) => ~result.ok

\* digit groups separated by literal dots
DottedPattern == <<Digits, Lit("."), Digits, Lit("."), Digits, Lit("."), Digits>>

\* the whole address is an IPv4 dotted address or, in any case of the
\* letters, purpleair-<digits>
ValidAddress(addr) ==
    \/ fullmatch(DottedPattern, addr)
    \/ fullmatch(HostnamePattern, lower(addr))

\* C20: pa_lan.Sensor(addr) succeeds exactly when the whole address is an
\* IPv4 dotted address or a purpleair-<digits> hostname, and raises
\* ValueError for every other address.
C20_OnlyValidAddresses ==
    fn = "Sensor.__init__"
        => /\ result.ok <=> ValidAddress(args[1])
           /\ ~result.ok => result.exc = "ValueError"

SingleChannelKeys ==
    {"pm1_0_atm_b", "pm2_5_atm_b", "pm10_0_atm_b", "pm1_0_cf_1_b", "pm2_5_cf_1_b",
     "pm10_0_cf_1_b", "p_0_3_um_b", "p_0_5_um_b", "p_1_0_um_b", "p_2_5_um_b",
     "p_5_0_um_b", "p_10_0_um_b", "pm2.5_aqi_b"}

\* C17: the point prepare_for_influxdb returns for a Web reading with one
\* channel has exactly the single-channel field keys, all ending in "_b";
\* the point of a Web reading with two channels has every sensor key both
\* plain and with "_b".
C17_ChannelSuffixes ==
    \A i \in 1..Len(returned) :
        (kind = "web" /\ returned[i].kind = "point")
            => IF heap.raw_b = EmptyDict
               THEN DOMAIN returned[i].point.fields = SingleChannelKeys
               ELSE \A key \in _SENSOR_KEYS :
                        /\ key \in DOMAIN returned[i].point.fields
                        /\ (key \o "_b") \in DOMAIN returned[i].point.fields

\* C17 witness: a point of a one-channel reading and its field keys
C17_Witness ==
    /\ kind = "web"
    /\ heap.raw_b = EmptyDict
    /\ Len(returned) >= 1
    /\ returned[1].kind = "point"
    /\ "p_0_3_um_b" \in DOMAIN returned[1].point.fields
    /\ "p_0_3_um" \notin DOMAIN returned[1].point.fields

\* C18: the point prepare_for_influxdb returns for a LAN reading and for a
\* Web reading with two channels has the two derived EPA fields.
C18_EpaFieldsPresent ==
    \A i \in 1..Len(returned) :
        (returned[i].kind = "point" /\ (kind = "lan" \/ heap.raw_b # EmptyDict))
            => {"pm2.5_epa_correction", "pm2.5_aqi_epa"}
                    \subseteq DOMAIN returned[i].point.fields

\* C19: the second prepare_for_influxdb call on a Measurement returns what
\* the first returned, whether or not write_sensor_measurement ran on the
\* Measurement in between.
C19_PrepareTwiceEqual ==
    Len(returned) = 2 => returned[1] = returned[2]

\* C19 witness: write_sensor_measurement dropped a null field from its point
\* between two calls that returned equal points
C19_Witness ==
    /\ Len(returned) = 2
    /\ wrote
    /\ op = "prepare_for_influxdb"
    /\ returned[1].kind = "point"
    /\ written # <<>>
    /\ DOMAIN written[1].fields # DOMAIN returned[1].point.fields
    /\ returned[1] = returned[2]

\* the properties of the second channel
ChannelBAccessors == {Suffixed(key) : key \in _SENSOR_KEYS} \cup {"pm2_5_aqi_b"}

\* the raw reading of the instance carries one channel: a Web document with
\* one entry, a LAN dict without "_b" keys
OneChannel ==
    /\ m_state = "constructed"
    /\ IF kind = "web" THEN heap.raw_b = EmptyDict
       ELSE \A key \in DOMAIN heap.raw_a : ~EndsWith(key, <<"_", "b">>)

\* C21: on a Measurement of either class whose raw reading carries one
\* channel, every channel-B property returns None and does not raise.
C21_ChannelBNull ==
    (OneChannel /\ fn \in ChannelBAccessors) => result = Ok(Null)

\* the properties the Web API reports for the environment
EnvironmentAccessors == {"rssi", "uptime", "temp_f", "humidity", "pressure"}

\* the value of the raw key a Web property stands for, None when the key is
\* absent
WebRaw(name) ==
    IF name \in _SENSOR_KEYS THEN Get(heap.raw_a, name)
    ELSE IF \E key \in _SENSOR_KEYS : key \o "_b" = name
    THEN Get(heap.raw_b, CHOOSE key \in _SENSOR_KEYS : key \o "_b" = name)
    ELSE IF name = "pm2_5_aqi" THEN Get(heap.raw_a, "PM2_5Value")
    ELSE IF name = "pm2_5_aqi_b" THEN Get(heap.raw_b, "PM2_5Value")
    ELSE IF name = "lat" THEN Get(heap.raw_a, "Lat")
    ELSE IF name = "lon" THEN Get(heap.raw_a, "Lon")
    ELSE IF name = "rssi" THEN Get(heap.raw_a, "RSSI")
    ELSE IF name = "uptime" THEN Get(heap.raw_a, "Uptime")
    ELSE Get(heap.raw_a, name)

\* the PM2_5Value of a channel is absent or lies in a bucket of the AQI table
InTable(ch) ==
    \/ IsNone(Get(ch, "PM2_5Value"))
    \/ /\ Float(Get(ch, "PM2_5Value")).ok
       /\ \E i \in 1..Len(web_concentration_limits) :
            WebInBucket(Float(Get(ch, "PM2_5Value")).val, i)

\* a Web reading with two channels whose PM2.5 values the AQI table covers
TwoChannelWeb ==
    /\ m_state = "constructed"
    /\ kind = "web"
    /\ heap.raw_b # EmptyDict
    /\ InTable(heap.raw_a)
    /\ InTable(heap.raw_b)

\* C22: on a two-channel Web reading every property of the Measurement
\* returns a value that is not a string; a property whose raw value is null
\* returns None; the channel-B and the environment properties of a raw value
\* that is not null return a value that is not None.
C22_TypedCoercion ==
    (TwoChannelWeb /\ fn \in Accessors("web") \ {"sensor_id", "place", "pm2_5_epa_correction"})
        => IF fn # "pm2_5_aqi_epa" /\ IsNone(WebRaw(fn))
           THEN result = Ok(Null)
           ELSE /\ result.ok
                /\ result.val.kind # "str"
                /\ (fn \in ChannelBAccessors \cup EnvironmentAccessors)
                        => ~IsNone(result.val)

\* the Web points the callers of prepare_for_influxdb received
WebPoints ==
    {returned[i].point : i \in {j \in 1..Len(returned) :
                                    kind = "web" /\ returned[j].kind = "point"}}

\* C23: in every Web point the "lat" and "lon" tags are channel A's Lat and
\* Lon, and in the point of a two-channel reading every field <key> is
\* float() of channel A's <key> and every field <key>_b is float() of
\* channel B's <key>.
C23_FaithfulMapping ==
    \A point \in WebPoints :
        /\ point.tags["lat"] = heap.raw_a["Lat"]
        /\ point.tags["lon"] = heap.raw_a["Lon"]
        /\ heap.raw_b # EmptyDict
            => \A key \in _SENSOR_KEYS :
                /\ point.fields[key] = Float(heap.raw_a[key]).val
                /\ point.fields[key \o "_b"] =
                        (IF IsNone(heap.raw_b[key]) THEN Null
                         ELSE Float(heap.raw_b[key]).val)

\* the write_points request of the last write_sensor_measurement call raised
WriteRaised ==
    dbOutcome.exc \in {"ConnectionError", "InfluxDBClientError", "InfluxDBServerError"}

\* C24: a poll whose write_points request raised (client, server or
\* transport error) does not log "Sensor measurement written to InfluxDB."
\* and returns False; the line is logged only by a poll whose write_points
\* request returned.
C24_WrittenOnlyOnSuccess ==
    /\ (IsPoll /\ WriteRaised)
        => (WrittenMsg \notin Msgs(opLog) /\ retval = "False")
    /\ (IsPoll /\ WrittenMsg \in Msgs(opLog)) => dbOutcome.exc = "none"

\* the database request made last, by init_database or by the poll before,
\* returned
LastRequestReturned ==
    \/ op = "init_database" /\ retval = "True"
    \/ op = "query_and_write_database" /\ dbOutcome.exc = "none"

\* the lines of a lost database link: the tracker's ERROR and, directly
\* after it, the two lines of the error detail
LostLines(log) ==
    \E i \in 1..(Len(log) - 2) :
        /\ log[i] = Error(DbLostMsg)
        /\ log[i + 1].level = "ERROR"
        /\ log[i + 1].msg \in {"Requests Connection Error:", "InfluxDB Server Error:"}
        /\ log[i + 2] = Error("<err>")

\* C25: a poll whose write_points request raises a transport or a server
\* error, the database request before it having returned, logs "Cannot
\* connect to InfluxDB." and the error detail; so does the first poll after
\* a successful init_database.
C25_FirstFailureLogged ==
    [][(/\ pc = "query"
        /\ LastRequestReturned
        /\ op' = "query_and_write_database"
        /\ query_iter' = query_iter + 1
        /\ dbOutcome'.exc \in {"ConnectionError", "InfluxDBServerError"})
            => LostLines(opLog')]_vars

\* the concentration lies in 0 .. 500.4
InRange(pm) == pm.num >= 0 /\ pm.num * 10 <= 5004 * pm.den

\* a <= b for two numbers
Leq(a, b) == a.num * b.den <= b.num * a.den

\* the bucket of the table that holds the concentration cut to one decimal
BucketOf(pm) ==
    CHOOSE i \in 1..Len(concentration_limits) :
        /\ concentration_limits[i][1] <= (pm.num * 10) \div pm.den
        /\ (pm.num * 10) \div pm.den <= concentration_limits[i][2]

\* C26: for a concentration in 0 .. 500.4, at any decimal precision,
\* get_aqi returns a value between the AQI limits of the bucket that holds
\* the concentration cut to one decimal, hence within 0 .. 500; and of two
\* such concentrations the larger one never gets the smaller AQI.
C26_AqiBoundedMonotone ==
    /\ [](fn = "get_aqi" /\ InRange(args[1])
            => /\ result.ok
               /\ result.val.kind = "num"
               /\ Leq(Num(aqi_limits[BucketOf(args[1])][1], 1), result.val)
               /\ Leq(result.val, Num(aqi_limits[BucketOf(args[1])][2], 1))
               /\ Leq(Num(0, 1), result.val)
               /\ Leq(result.val, Num(500, 1)))
    /\ [][(/\ fn = "get_aqi" /\ InRange(args[1])
           /\ fn' = "get_aqi" /\ InRange(args'[1])
           /\ Leq(args[1], args'[1]))
            => Leq(result.val, result'.val)]_vars

\* C26 witness: get_aqi(12.09) returned 50, the upper AQI limit of the
\* first bucket
C26_Witness ==
    /\ fn = "get_aqi"
    /\ args = <<Num(1209, 100)>>
    /\ BucketOf(args[1]) = 1
    /\ AqiIs(50)

\* C27: no field of a point that the LAN prepare_for_influxdb returned holds
\* the string "nan".
C27_NoNanInFields ==
    \A i \in 1..Len(returned) :
        (kind = "lan" /\ returned[i].kind = "point")
            => \A key \in DOMAIN returned[i].point.fields :
                    ~IsNan(returned[i].point.fields[key])

====
